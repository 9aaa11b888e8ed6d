----------------------------- MODULE RagConfig -----------------------------
(***************************************************************************)
(* The model providers of the administrator: rows of rag_config, their     *)
(* copy in memory that every request reads (rag/config_store.py), and the  *)
(* embedding clients built from it, kept for each endpoint and without the *)
(* API key (rag/embedding/factory.py).  The page AdminRag.tsx sends a list *)
(* that may be older than the rows, with a mask in place of each key.      *)
(***************************************************************************)
EXTENDS Naturals

CONSTANTS Providers,   \* ids of providers
          Endpoints,   \* (base URL, model) pairs, the key of the client cache
          EndpointOf,  \* the endpoint of each provider
          Keys,        \* API keys
          Admins,      \* tabs of the page
          Readers,     \* requests and threads that embed
          NoKey,       \* the empty API key
          Absent,      \* a provider that is not in the list
          Blank,       \* "***" or "", what a form shows for a stored key
          Builtin      \* the local embedding model

ASSUME RagAssumption ==
    /\ EndpointOf \in [Providers -> Endpoints]
    /\ NoKey \notin Keys /\ Absent \notin Keys \cup {NoKey} /\ Blank \notin Keys \cup {Absent}
    /\ Builtin \notin Providers

VARIABLES ragMem,    \* _cache
          ragRows,   \* rag_config
          clients,   \* _embedding_cache: the key each client was built with
          saves,     \* a PUT /rag/providers and the PUT /rag/config after it
          readers,   \* settings a reader has read and not used yet
          drift,     \* history: a save failed or two overlapped since the start
          tainted    \* history: a client was built from settings that had changed

ragVars == <<ragMem, ragRows, clients, saves, readers, drift, tainted>>

Secret  == Keys \cup {NoKey}
Config  == [key : [Providers -> Secret \cup {Absent}], use : Providers \cup {Builtin}]
Payload == [key : [Providers -> Keys \cup {Blank, Absent}], use : Providers \cup {Builtin}]
NoSave  == [pc |-> "idle", conf |-> [key |-> [p \in Providers |-> Absent], use |-> Builtin]]

\* _resolve_from_providers: the default provider and its key, Builtin without one.
Settings ==
    IF ragMem.use # Builtin /\ ragMem.key[ragMem.use] # Absent
    THEN <<ragMem.use, ragMem.key[ragMem.use]>> ELSE <<Builtin, NoKey>>

NoClients == [e \in Endpoints |-> Absent]
Pending   == \E a \in Admins : saves[a].pc \in {"commit", "clear"}

RagInit ==
    /\ ragRows = NoSave.conf /\ ragMem = NoSave.conf
    /\ clients = NoClients
    /\ saves = [a \in Admins |-> NoSave]
    /\ readers = [r \in Readers |-> {}]
    /\ drift = FALSE /\ tainted = FALSE

\* Mutant: what the form shows is what is stored.
MergedBlank(f) ==
    [p \in Providers |-> IF f.key[p] = Blank THEN NoKey ELSE f.key[p]]

\* A key is kept when the form has none for its provider.
Merged(f) ==
    [p \in Providers |->
        CASE f.key[p] # Blank -> f.key[p]
          [] f.key[p] = Blank /\ ragMem.key[p] \in Keys -> ragMem.key[p]
          [] OTHER -> NoKey]

\* save_providers_and_defaults changes the memory before its first await.
PutProviders(a, f) ==
    LET c == [key |-> Merged(f), use |-> f.use] IN
    /\ saves[a].pc = "idle"
    /\ ragMem' = c
    /\ saves' = [saves EXCEPT ![a] = [pc |-> "commit", conf |-> c]]
    /\ drift' = (drift \/ Pending)
    /\ UNCHANGED <<ragRows, clients, readers, tainted>>

\* Mutant: the row of the default model is left out of the loop.
CommitKeys(a) ==
    /\ saves[a].pc = "commit"
    /\ ragRows' = [ragRows EXCEPT !.key = saves[a].conf.key]
    /\ saves' = [saves EXCEPT ![a] = [NoSave EXCEPT !.pc = "clear"]]
    /\ UNCHANGED <<ragMem, clients, readers, drift, tainted>>

CommitProviders(a) ==
    /\ saves[a].pc = "commit"
    /\ ragRows' = saves[a].conf
    /\ saves' = [saves EXCEPT ![a] = [NoSave EXCEPT !.pc = "clear"]]
    /\ UNCHANGED <<ragMem, clients, readers, drift, tainted>>

\* The commit fails: the memory keeps what the table never got.
FailProviders(a) ==
    /\ saves[a].pc = "commit"
    /\ saves' = [saves EXCEPT ![a] = NoSave]
    /\ drift' = TRUE
    /\ UNCHANGED <<ragMem, ragRows, clients, readers, tainted>>

\* Mutant: saving providers leaves the clients to save_to_db.
ClearNothing(a) ==
    /\ saves[a].pc = "clear"
    /\ saves' = [saves EXCEPT ![a].pc = "config"]
    /\ UNCHANGED <<ragMem, ragRows, clients, readers, drift, tainted>>

\* clear_embedding_cache, once the coroutine runs again.
ClearClients(a) ==
    /\ saves[a].pc = "clear"
    /\ clients' = NoClients
    /\ tainted' = FALSE
    /\ saves' = [saves EXCEPT ![a].pc = "config"]
    /\ UNCHANGED <<ragMem, ragRows, readers, drift>>

\* PUT /rag/config follows: save_to_db stores the other settings and clears the
\* clients again, or it fails.
PutConfig(a) ==
    /\ saves[a].pc = "config"
    /\ \/ clients' = NoClients /\ tainted' = FALSE
       \/ UNCHANGED <<clients, tainted>>
    /\ saves' = [saves EXCEPT ![a] = NoSave]
    /\ UNCHANGED <<ragMem, ragRows, readers, drift>>

\* get_rag_settings, and some steps later get_embedding(settings).
ReadSettings(r) ==
    /\ readers[r] = {}
    /\ Settings[1] # Builtin
    /\ readers' = [readers EXCEPT ![r] = {Settings}]
    /\ UNCHANGED <<ragMem, ragRows, clients, saves, drift, tainted>>

GetEmbedding(r, s) ==
    LET e == EndpointOf[s[1]] IN
    /\ s \in readers[r]
    /\ IF clients[e] = Absent
       THEN /\ clients' = [clients EXCEPT ![e] = s[2]]
            /\ tainted' = (tainted \/ s # Settings)
       ELSE UNCHANGED <<clients, tainted>>
    /\ readers' = [readers EXCEPT ![r] = {}]
    /\ UNCHANGED <<ragMem, ragRows, saves, drift>>

\* Startup: load_from_db.
RestartRag ==
    /\ ragMem' = ragRows
    /\ clients' = NoClients
    /\ saves' = [a \in Admins |-> NoSave]
    /\ readers' = [r \in Readers |-> {}]
    /\ drift' = FALSE /\ tainted' = FALSE
    /\ UNCHANGED ragRows

RagNext ==
    \/ \E a \in Admins :
         \/ \E f \in Payload : PutProviders(a, f)
         \/ CommitProviders(a) \/ FailProviders(a) \/ ClearClients(a) \/ PutConfig(a)
    \/ \E r \in Readers : ReadSettings(r) \/ \E s \in readers[r] : GetEmbedding(r, s)
    \/ RestartRag

RagSpec == RagInit /\ [][RagNext]_ragVars

----------------------------------------------------------------------------
(* Properties *)

RagTypeOK ==
    /\ ragMem \in Config /\ ragRows \in Config
    /\ clients \in [Endpoints -> Secret \cup {Absent}]
    /\ saves \in [Admins -> [pc : {"idle", "commit", "clear", "config"}, conf : Config]]
    /\ readers \in [Readers -> SUBSET (Providers \X Secret)]
    /\ drift \in BOOLEAN /\ tainted \in BOOLEAN

\* What every request uses is what a restart would load: the memory and the table
\* part only while a save waits for its commit, after a commit that failed, and
\* after two saves that overlapped.
MemoryIsTable ==
    drift \/ (\E a \in Admins : saves[a].pc = "commit") \/ ragMem = ragRows

\* A provider that stays in the list keeps its key through masked forms, lists that
\* are older than the rows, and restarts; with the exceptions of MemoryIsTable.
KeyKept ==
    [][\A p \in Providers :
          ~drift /\ ragRows.key[p] \in Keys /\ ragRows'.key[p] # Absent
              => ragRows'.key[p] \in Keys]_ragVars

\* With no save pending, a client that exists was built with the key that is
\* configured, unless a reader built it from settings it had read before.
ClientsFresh ==
    ~drift /\ ~Pending /\ ~tainted =>
        \A e \in Endpoints : clients[e] # Absent =>
            /\ Settings[1] # Builtin
            /\ EndpointOf[Settings[1]] = e
            /\ clients[e] = Settings[2]

\* The docstring of save_to_db, which save_providers_and_defaults repeats in code:
\* "保存后清除 Embedding 实例缓存，使切换模型/类型或 API Key 后下次请求立即生效".  The
\* next request after a save gets a client with the configured key.
KeyTakesEffect ==
    ~drift /\ (\A a \in Admins : saves[a].pc = "idle") /\ Settings[1] # Builtin =>
        clients[EndpointOf[Settings[1]]] \in {Absent, Settings[2]}
=============================================================================
