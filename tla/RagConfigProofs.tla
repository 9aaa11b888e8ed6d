-------------------------- MODULE RagConfigProofs --------------------------
(***************************************************************************)
(* The safety properties of RagConfig, for all providers, keys, tabs and   *)
(* readers.  The memory and the table agree because at most one save of an *)
(* undisturbed run is between its write to the memory and its clear, and   *)
(* what it will commit is what it put into the memory.                     *)
(***************************************************************************)
EXTENDS RagConfig, TLAPS

USE DEF ragVars

\* A save of an undisturbed run is alone, and commits what the memory holds; it
\* takes no key away from a provider that stays.
SaveInv ==
    ~drift =>
        /\ \A a, b \in Admins :
              saves[a].pc \in {"commit", "clear"} /\ saves[b].pc \in {"commit", "clear"} => a = b
        /\ \A a \in Admins : saves[a].pc = "commit" =>
              /\ saves[a].conf = ragMem
              /\ \A p \in Providers : ragRows.key[p] \in Keys => ragMem.key[p] \in Keys \cup {Absent}
        /\ (\A a \in Admins : saves[a].pc # "commit") => ragMem = ragRows

RagInv == RagTypeOK /\ SaveInv /\ ClientsFresh

----------------------------------------------------------------------------

\* A form merged with the keys in memory is a configuration.
LEMMA MergedIsConfig ==
    ASSUME RagTypeOK, NEW f \in Payload
    PROVE  [key |-> Merged(f), use |-> f.use] \in Config
<1> USE RagAssumption
<1>1. \A p \in Providers : f.key[p] \in Keys \cup {Blank, Absent}
  BY DEF Payload
<1>2. \A p \in Providers : Merged(f)[p] \in Secret \cup {Absent}
  BY <1>1 DEF Merged, Secret
<1>3. Merged(f) \in [Providers -> Secret \cup {Absent}]
  BY <1>2 DEF Merged
<1> QED
  BY <1>3 DEF Payload, Config

LEMMA NoSaveIsSave == NoSave \in [pc : {"idle", "commit", "clear", "config"}, conf : Config]
BY DEF NoSave, Config

LEMMA InitType == RagInit => RagTypeOK
<1> SUFFICES ASSUME RagInit PROVE RagTypeOK
  OBVIOUS
<1>1. NoSave.conf \in Config
  BY DEF NoSave, Config
<1> QED
  BY <1>1, NoSaveIsSave DEF RagInit, RagTypeOK, NoClients, Secret

\* Every step keeps the types.
LEMMA StepType == RagTypeOK /\ [RagNext]_ragVars => RagTypeOK'
<1> SUFFICES ASSUME RagTypeOK, [RagNext]_ragVars PROVE RagTypeOK'
  OBVIOUS
<1> USE RagAssumption
<1> DEFINE Save == [pc : {"idle", "commit", "clear", "config"}, conf : Config]
<1>0. NoSave \in Save /\ saves \in [Admins -> Save]
  BY NoSaveIsSave DEF RagTypeOK
<1>1. ASSUME NEW a \in Admins, NEW f \in Payload, PutProviders(a, f) PROVE RagTypeOK'
  <2> DEFINE c == [key |-> Merged(f), use |-> f.use]
  <2>1. c \in Config
    BY MergedIsConfig
  <2>2. ragMem' = c /\ saves' = [saves EXCEPT ![a] = [pc |-> "commit", conf |-> c]]
    BY <1>1 DEF PutProviders
  <2> HIDE DEF c
  <2>3. [pc |-> "commit", conf |-> c] \in Save
    BY <2>1
  <2>4. saves' \in [Admins -> Save]
    BY <1>0, <2>2, <2>3
  <2>5. drift' \in BOOLEAN
    BY <1>1 DEF PutProviders, RagTypeOK, Pending
  <2> QED
    BY <1>1, <2>1, <2>2, <2>4, <2>5 DEF PutProviders, RagTypeOK
<1>2. ASSUME NEW a \in Admins, CommitProviders(a) \/ FailProviders(a) PROVE RagTypeOK'
  <2>1. saves[a] \in Save
    BY <1>0
  <2>2. [NoSave EXCEPT !.pc = "clear"] \in Save
    BY <1>0
  <2>3. saves' \in [Admins -> Save]
    BY <1>0, <1>2, <2>2 DEF CommitProviders, FailProviders
  <2>4. ragRows' \in Config /\ drift' \in BOOLEAN
    BY <1>2, <2>1 DEF CommitProviders, FailProviders, RagTypeOK
  <2> QED
    BY <1>2, <2>3, <2>4 DEF CommitProviders, FailProviders, RagTypeOK
<1>3. ASSUME NEW a \in Admins, ClearClients(a) \/ PutConfig(a) PROVE RagTypeOK'
  <2>1. [saves[a] EXCEPT !.pc = "config"] \in Save
    BY <1>0
  <2>2. saves' \in [Admins -> Save]
    BY <1>0, <1>3, <2>1 DEF ClearClients, PutConfig
  <2>3. clients' \in [Endpoints -> Secret \cup {Absent}] /\ tainted' \in BOOLEAN
    BY <1>3 DEF ClearClients, PutConfig, NoClients, RagTypeOK
  <2> QED
    BY <1>3, <2>2, <2>3 DEF ClearClients, PutConfig, RagTypeOK
<1>4. ASSUME NEW r \in Readers, ReadSettings(r) PROVE RagTypeOK'
  <2>1. Settings \in Providers \X Secret
    BY <1>4 DEF ReadSettings, Settings, RagTypeOK, Config, Secret
  <2> QED
    BY <1>4, <2>1 DEF ReadSettings, RagTypeOK
<1>5. ASSUME NEW r \in Readers, NEW s \in readers[r], GetEmbedding(r, s) PROVE RagTypeOK'
  <2>1. s \in Providers \X Secret
    BY DEF RagTypeOK
  <2>2. clients' \in [Endpoints -> Secret \cup {Absent}] /\ tainted' \in BOOLEAN
    BY <1>5, <2>1 DEF GetEmbedding, RagTypeOK
  <2>3. readers' \in [Readers -> SUBSET (Providers \X Secret)]
    BY <1>5 DEF GetEmbedding, RagTypeOK
  <2> QED
    BY <1>5, <2>2, <2>3 DEF GetEmbedding, RagTypeOK
<1>6. CASE RestartRag
  BY <1>0, <1>6 DEF RestartRag, NoClients, RagTypeOK
<1>7. CASE UNCHANGED ragVars
  BY <1>7 DEF RagTypeOK
<1> QED
  BY <1>1, <1>2, <1>3, <1>4, <1>5, <1>6, <1>7 DEF RagNext

\* The type of Settings, and that only an undisturbed memory change moves it.
LEMMA SettingsType == RagTypeOK => Settings \in (Providers \X Secret) \cup {<<Builtin, NoKey>>}
BY RagAssumption DEF RagTypeOK, Settings, Config, Secret

LEMMA InitSave == RagInit => SaveInv /\ ClientsFresh
BY DEF RagInit, SaveInv, ClientsFresh, NoSave, NoClients

\* Every step keeps SaveInv.  A save that starts in an undisturbed run is alone,
\* so what it merged its form into is what the table holds.
LEMMA StepSave == RagTypeOK /\ SaveInv /\ [RagNext]_ragVars => SaveInv'
<1> SUFFICES ASSUME RagTypeOK, SaveInv, [RagNext]_ragVars, ~drift' PROVE SaveInv'
  BY DEF SaveInv
<1> USE RagAssumption
<1>0. saves \in [Admins -> [pc : {"idle", "commit", "clear", "config"}, conf : Config]]
  BY DEF RagTypeOK
<1>1. ASSUME NEW a \in Admins, NEW f \in Payload, PutProviders(a, f) PROVE SaveInv'
  <2>1. ~drift /\ ~Pending
    BY <1>1 DEF PutProviders
  <2>2. ragMem = ragRows /\ \A b \in Admins : saves[b].pc \notin {"commit", "clear"}
    BY <2>1 DEF SaveInv, Pending
  <2>3. /\ ragMem' = [key |-> Merged(f), use |-> f.use] /\ ragRows' = ragRows
        /\ saves' = [saves EXCEPT ![a] = [pc |-> "commit", conf |-> ragMem']]
    BY <1>1 DEF PutProviders
  <2>4. saves'[a].pc = "commit" /\ saves'[a].conf = ragMem'
    BY <1>0, <2>3
  <2>5. \A b \in Admins \ {a} : saves'[b].pc \notin {"commit", "clear"}
    BY <1>0, <2>2, <2>3
  <2>6. \A p \in Providers : ragRows.key[p] \in Keys => Merged(f)[p] \in Keys \cup {Absent}
    <3> SUFFICES ASSUME NEW p \in Providers, ragRows.key[p] \in Keys
                 PROVE  Merged(f)[p] \in Keys \cup {Absent}
      OBVIOUS
    <3>1. f.key[p] \in Keys \cup {Blank, Absent}
      BY DEF Payload
    <3> QED
      BY <2>2, <3>1 DEF Merged
  <2>7. \A p \in Providers : ragRows'.key[p] \in Keys => ragMem'.key[p] \in Keys \cup {Absent}
    BY <2>3, <2>6
  <2> QED
    BY <2>4, <2>5, <2>7 DEF SaveInv
<1>2. ASSUME NEW a \in Admins, CommitProviders(a) PROVE SaveInv'
  <2>1. ~drift /\ saves[a].pc = "commit" /\ saves[a].conf = ragMem
    BY <1>2 DEF CommitProviders, SaveInv
  <2>2. \A b \in Admins \ {a} : saves[b].pc \notin {"commit", "clear"}
    BY <2>1 DEF SaveInv
  <2>3. ragRows' = ragMem /\ ragMem' = ragMem
    BY <1>2, <2>1 DEF CommitProviders
  <2>4. saves'[a].pc = "clear" /\ \A b \in Admins \ {a} : saves'[b] = saves[b]
    BY <1>0, <1>2 DEF CommitProviders, NoSave
  <2> QED
    BY <2>2, <2>3, <2>4 DEF SaveInv
<1>3. ASSUME NEW a \in Admins, FailProviders(a) PROVE SaveInv'
  BY <1>3 DEF FailProviders
<1>4. ASSUME NEW a \in Admins, ClearClients(a) \/ PutConfig(a) PROVE SaveInv'
  <2>1. ~drift /\ ragMem' = ragMem /\ ragRows' = ragRows
    BY <1>4 DEF ClearClients, PutConfig
  <2>2. /\ saves[a].pc # "commit" /\ saves'[a].pc \in {"config", "idle"}
        /\ \A b \in Admins \ {a} : saves'[b] = saves[b]
    BY <1>0, <1>4 DEF ClearClients, PutConfig, NoSave
  <2> QED
    BY <2>1, <2>2 DEF SaveInv
<1>5. ASSUME NEW r \in Readers, ReadSettings(r) \/ \E s \in readers[r] : GetEmbedding(r, s)
      PROVE  SaveInv'
  BY <1>5 DEF ReadSettings, GetEmbedding, SaveInv
<1>6. CASE RestartRag
  <2>1. \A a \in Admins : saves'[a].pc = "idle"
    BY <1>6 DEF RestartRag, NoSave
  <2> QED
    BY <1>6, <2>1 DEF RestartRag, SaveInv
<1>7. CASE UNCHANGED ragVars
  BY <1>7 DEF SaveInv
<1> QED
  BY <1>1, <1>2, <1>3, <1>4, <1>5, <1>6, <1>7 DEF RagNext

\* Every step keeps ClientsFresh: the settings change under the clients only in a
\* save, which is pending until it has cleared them or has failed.
LEMMA StepFresh == RagTypeOK /\ ClientsFresh /\ [RagNext]_ragVars => ClientsFresh'
<1> SUFFICES ASSUME RagTypeOK, ClientsFresh, [RagNext]_ragVars,
                    ~drift', ~Pending', ~tainted'
             PROVE  ClientsFresh'
  BY DEF ClientsFresh
<1> USE RagAssumption
<1>0. saves \in [Admins -> [pc : {"idle", "commit", "clear", "config"}, conf : Config]]
  BY DEF RagTypeOK
<1>1. ASSUME NEW a \in Admins, NEW f \in Payload, PutProviders(a, f) PROVE ClientsFresh'
  <2>1. saves'[a].pc = "commit"
    BY <1>0, <1>1 DEF PutProviders
  <2> QED
    BY <2>1 DEF Pending
<1>2. ASSUME NEW a \in Admins, CommitProviders(a) PROVE ClientsFresh'
  <2>1. saves'[a].pc = "clear"
    BY <1>0, <1>2 DEF CommitProviders
  <2> QED
    BY <2>1 DEF Pending
<1>3. ASSUME NEW a \in Admins, FailProviders(a) PROVE ClientsFresh'
  BY <1>3 DEF FailProviders
<1>4. ASSUME clients' = NoClients PROVE ClientsFresh'
  BY <1>4 DEF ClientsFresh, NoClients
<1>5. ASSUME UNCHANGED <<ragMem, clients, drift, tainted>>, Pending => Pending' PROVE ClientsFresh'
  BY <1>5 DEF ClientsFresh, Settings
<1>6. ASSUME NEW a \in Admins, PutConfig(a) PROVE ClientsFresh'
  <2>1. CASE clients' = NoClients
    BY <1>4, <2>1
  <2>2. CASE UNCHANGED <<clients, tainted>>
    <3>1. Pending => Pending'
      BY <1>0, <1>6 DEF PutConfig, Pending
    <3> QED
      BY <1>5, <1>6, <2>2, <3>1 DEF PutConfig
  <2> QED
    BY <1>6, <2>1, <2>2 DEF PutConfig
<1>7. ASSUME NEW r \in Readers, ReadSettings(r) PROVE ClientsFresh'
  BY <1>5, <1>7 DEF ReadSettings, Pending
<1>8. ASSUME NEW r \in Readers, NEW s \in readers[r], GetEmbedding(r, s) PROVE ClientsFresh'
  <2> DEFINE e == EndpointOf[s[1]]
  <2>1. CASE clients[e] # Absent
    BY <1>5, <1>8, <2>1 DEF GetEmbedding, Pending
  <2>2. CASE clients[e] = Absent
    <3>1. /\ clients' = [clients EXCEPT ![e] = s[2]] /\ s = Settings /\ ~tainted
          /\ UNCHANGED <<ragMem, saves, drift>>
      BY <1>8, <2>2 DEF GetEmbedding
    <3>2. Settings' = Settings /\ ~drift /\ ~Pending
      BY <3>1 DEF Settings, Pending
    <3>3. s \in Providers \X Secret /\ Settings[1] # Builtin
      BY <3>1 DEF RagTypeOK
    <3>4. clients'[e] = Settings[2] /\ \A x \in Endpoints \ {e} : clients'[x] = clients[x]
      BY <3>1, <3>3 DEF RagTypeOK
    <3> QED
      BY <3>1, <3>2, <3>3, <3>4 DEF ClientsFresh
  <2> QED
    BY <2>1, <2>2
<1>9. CASE RestartRag
  BY <1>4, <1>9 DEF RestartRag
<1>10. CASE \E a \in Admins : ClearClients(a)
  BY <1>4, <1>10 DEF ClearClients
<1>11. CASE UNCHANGED ragVars
  BY <1>5, <1>11 DEF Pending
<1> QED
  BY <1>1, <1>2, <1>3, <1>6, <1>7, <1>8, <1>9, <1>10, <1>11 DEF RagNext

----------------------------------------------------------------------------

\* The inductive invariant holds in every reachable state.
THEOREM RagInvariant == RagSpec => []RagInv
<1>1. RagInit => RagInv
  BY InitType, InitSave DEF RagInv
<1>2. RagInv /\ [RagNext]_ragVars => RagInv'
  BY StepType, StepSave, StepFresh DEF RagInv
<1> QED
  BY <1>1, <1>2, PTL DEF RagSpec

\* Every variable keeps its type.
THEOREM RagTypeCorrect == RagSpec => []RagTypeOK
<1>1. RagInv => RagTypeOK
  BY DEF RagInv
<1> QED
  BY <1>1, RagInvariant, PTL

\* What requests use is what a restart would load, outside the recorded cases.
THEOREM MemoryAndTableAgree == RagSpec => []MemoryIsTable
<1>1. RagInv => MemoryIsTable
  BY DEF RagInv, SaveInv, MemoryIsTable
<1> QED
  BY <1>1, RagInvariant, PTL

\* A client that exists was built with the configured key, outside the recorded cases.
THEOREM ClientsAreFresh == RagSpec => []ClientsFresh
<1>1. RagInv => ClientsFresh
  BY DEF RagInv
<1> QED
  BY <1>1, RagInvariant, PTL

\* No save of an undisturbed run takes the key of a provider that stays in the list.
THEOREM KeysAreKept == RagSpec => KeyKept
<1> DEFINE Keeps == \A p \in Providers :
                       ~drift /\ ragRows.key[p] \in Keys /\ ragRows'.key[p] # Absent
                           => ragRows'.key[p] \in Keys
<1>1. RagInv /\ [RagNext]_ragVars => [Keeps]_ragVars
  <2> SUFFICES ASSUME RagInv, RagNext PROVE Keeps
    OBVIOUS
  <2>1. CASE \E a \in Admins : CommitProviders(a)
    <3>1. PICK a \in Admins : CommitProviders(a)
      BY <2>1
    <3>2. ~drift => ragRows' = ragMem
                    /\ \A p \in Providers : ragRows.key[p] \in Keys => ragMem.key[p] \in Keys \cup {Absent}
      BY <3>1 DEF CommitProviders, RagInv, SaveInv
    <3> QED
      BY <3>2
  <2>2. CASE ragRows' = ragRows
    BY <2>2
  <2> QED
    BY <2>1, <2>2 DEF RagNext, PutProviders, FailProviders, ClearClients, PutConfig,
                      ReadSettings, GetEmbedding, RestartRag
<1> HIDE DEF Keeps
<1>2. RagSpec => [][Keeps]_ragVars
  BY <1>1, RagInvariant, PTL DEF RagSpec
<1> QED
  BY <1>2 DEF KeyKept, Keeps
=============================================================================
