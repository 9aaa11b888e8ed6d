-------------------------------- MODULE Tab --------------------------------
(***************************************************************************)
(* A browser tab of the single-page application.  App.tsx shows one page   *)
(* of a route at a time; leaving the route unmounts it.  Promises of a     *)
(* page that is gone still run: they find dead React state (a set-state is *)
(* dropped), and live storage, toasts and server.                          *)
(***************************************************************************)
EXTENDS Naturals

CONSTANT MaxMounts   \* bound on how often the page is opened

VARIABLES mount,     \* number of the newest mount of the page
          mounted    \* it is on the screen

tabVars == <<mount, mounted>>

Mounts   == 1 .. MaxMounts
Alive(p) == mounted /\ p = mount

TabInit == mount = 0 /\ mounted = FALSE

Mount ==
    /\ ~mounted /\ mounted' = TRUE
    /\ mount < MaxMounts /\ mount' = mount + 1

Unmount ==
    /\ mounted /\ mounted' = FALSE
    /\ UNCHANGED mount
=============================================================================
