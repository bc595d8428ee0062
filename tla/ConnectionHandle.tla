-------------------------- MODULE ConnectionHandle --------------------------
(***************************************************************************)
(* The handle of a connection: how it is opened, how each of its methods   *)
(* makes sure that the connection is still alive and journals what it did, *)
(* and how the connection is burned.                                       *)
(*                                                                         *)
(* Source: rust/volta-pcg/src/production.rs (ConnectionStore,              *)
(* ConnectionHandle).                                                      *)
(*                                                                         *)
(* Every method first asks ensure_live, which reads the journal, and acts  *)
(* afterwards; another opener of the same identity may burn the journal in *)
(* between, so the two are separate steps (checked).  A method refuses an  *)
(* inadmissible call by burning the connection, whatever was wrong with it *)
(* (Refuse).  A process may die at any point without running Drop.         *)
(***************************************************************************)
EXTENDS ResponseAuthorization, ConnectionJournal, FiniteSets

CONSTANTS
    Conns,        \* connection identities
    Stages,       \* expansion stages
    Sizes,        \* outputs a stage may be registered with
    Counts,       \* correlations a call may ask for
    Claims,       \* claims a response may freeze or a settlement may seal
    Bindings,     \* response bindings, as the sequence of keys they burn, nonce last
    Seeds,        \* settlement bindings: auxiliary root set and query seed, in this order
    Expected,     \* expected_full_correlations_per_role of a settlement
    Tags,         \* the rest of a correlation domain
    MaxEpoch,     \* bound: settlements of a connection
    MaxFrames,    \* bound: channel frames of a response
    MaxLog,       \* bound: records of a journal, TERMINAL apart
    MaxTerminals, \* bound: TERMINAL records of a journal
    Losses        \* bound: losses of power

ASSUME ConnAssumption ==
    /\ Sizes \subseteq Nat \ {0} /\ Counts \cup Claims \subseteq Nat \ {0} /\ Expected \subseteq Nat
    /\ {MaxEpoch, MaxFrames, MaxLog, MaxTerminals, Losses} \subseteq Nat
    /\ \A b \in Bindings : b \in Seq(Keys) /\ b # <<>>
    /\ \A s \in Seeds : s \in Seq(Keys) /\ Len(s) = 2
    /\ Conns \X (1..MaxEpoch) \subseteq Keys
    /\ None \notin Keys

VARIABLES
    journals, \* the journal of each identity
    handles,  \* the live handle of each identity
    receipts, \* settlement reservations the store granted
    exposed,  \* history: ranges returned to a caller, with the journal position of their record
    opened,   \* history: how often create returned a handle
    burned,   \* history: identities a second opener burned
    closed,   \* history: identities close_x4d_after_all_verified closed
    losses    \* history: losses of power

history == <<exposed, opened, burned, closed>>
connVars == <<journals, handles, receipts, history, losses>>
vars == <<authVars, connVars>>

-----------------------------------------------------------------------------
(* A handle *)

NoCounters == [generated |-> 0, consumed |-> 0, reserved |-> 0, burned |-> 0, available |-> 0]

\* No settlement is in flight while seal.count = 0, none is fresh while fresh.epoch = 0,
\* a stage is unknown while its generated = 0.
NoSeal == [epoch |-> 0, first |-> 0, count |-> 0]
NoFresh == [epoch |-> 0, expected |-> 0]

NoHandle ==
    [state |-> "none", checked |-> FALSE, recorded |-> FALSE,
     response |-> None, spent |-> 0, frames |-> 0, froze |-> FALSE,
     stages |-> [s \in Stages |-> NoCounters], activated |-> [s \in Stages |-> 0],
     domains |-> {}, frozen |-> 0, verified |-> 0, epoch |-> 1,
     seal |-> NoSeal, fresh |-> NoFresh, paid |-> 0, auxiliary |-> {}]

\* burn_in_memory: what is available is burned, the response ends.
BurnInMemory(h) ==
    [h EXCEPT !.state = "terminal", !.checked = FALSE, !.response = None,
              !.stages = [s \in Stages |->
                  [h.stages[s] EXCEPT !.burned = @ + h.stages[s].available, !.available = 0]]]

Handle(c, h) == handles' = [handles EXCEPT ![c] = h]

\* Bounds on the journals.
Terminals(c) == {i \in DOMAIN journals[c].log : journals[c].log[i].kind = "TERMINAL"}
Room(c) == Len(journals[c].log) - Cardinality(Terminals(c)) < MaxLog
TerminalRoom(c) == Cardinality(Terminals(c)) < MaxTerminals

-----------------------------------------------------------------------------
(* Opening, checking and burning *)

\* ConnectionStore::new syncs the directory.
OpenStore ==
    /\ journals' = DirSynced(journals)
    /\ UNCHANGED <<authVars, handles, receipts, history, losses>>

\* create: the identity is new to the directory.
Create(c) ==
    /\ ~journals[c].exists
    /\ \E o \in Outcomes :
          LET new == [journals EXCEPT ![c] = Appended([NoJournal EXCEPT !.exists = TRUE],
                                                      Mark("OPEN"), o)]
          IN  /\ journals' = IF o = "ok" THEN DirSynced(new) ELSE new
              /\ IF o = "ok" THEN Handle(c, [NoHandle EXCEPT !.state = "open"])
                             ELSE UNCHANGED handles
              /\ opened' = IF o = "ok" THEN [opened EXCEPT ![c] = @ + 1] ELSE opened
    /\ UNCHANGED <<authVars, receipts, exposed, burned, closed, losses>>

\* create: the identity has a journal; the caller is turned away, the journal
\* burned if it does not say so already.
CreateRejected(c) ==
    /\ journals[c].exists
    /\ IF ContainsTerminal(journals[c])
       THEN UNCHANGED <<journals, burned>>
       ELSE /\ TerminalRoom(c)
            /\ \E o \in Outcomes : \E j \in BurnedJournals(journals[c], o) :
                  LET new == [journals EXCEPT ![c] = j]
                  IN  /\ journals' = IF o = "ok" THEN DirSynced(new) ELSE new
                      /\ burned' = IF o = "ok" THEN burned \cup {c} ELSE burned
    /\ UNCHANGED <<authVars, handles, receipts, exposed, opened, closed, losses>>

\* ensure_live, at the start of every method.
EnsureLive(c) ==
    /\ handles[c].state \in {"open", "active"}
    /\ ~handles[c].checked
    /\ Handle(c, IF ContainsTerminal(journals[c])
                 THEN [BurnInMemory(handles[c]) EXCEPT !.recorded = TRUE]
                 ELSE [handles[c] EXCEPT !.checked = TRUE])
    /\ UNCHANGED <<authVars, journals, receipts, history, losses>>

\* The append of terminal_burn.  A failing sync of the directory leaves what
\* a failing sync of the file may leave.
TerminalAppend(c, o) ==
    LET new == [journals EXCEPT ![c] = Appended(@, Mark("TERMINAL"), o)]
    IN  /\ TerminalRoom(c)
        /\ journals' = IF o = "ok" THEN DirSynced(new) ELSE new

TerminalBurn(c, o) ==
    /\ TerminalAppend(c, o)
    /\ Handle(c, [BurnInMemory(handles[c]) EXCEPT !.recorded = (o = "ok")])

\* fail: a method refuses its call.
Refuse(c) ==
    /\ handles[c].checked
    /\ \E o \in Outcomes : TerminalBurn(c, o)
    /\ UNCHANGED <<authVars, receipts, history, losses>>

\* abort, close, malicious_check_failed, unexpected_eof, an expired TTL or an
\* unreadable journal; a burn whose record is missing is tried again.
AbortConnection(c) ==
    /\ handles[c].state # "none" /\ ~handles[c].checked /\ ~handles[c].recorded
    /\ \E o \in Outcomes : TerminalBurn(c, o)
    /\ UNCHANGED <<authVars, receipts, history, losses>>

\* Drop of a handle.
DropHandle(c) ==
    /\ handles[c].state # "none" /\ ~handles[c].checked
    /\ \/ handles[c].recorded /\ UNCHANGED journals
       \/ ~handles[c].recorded /\ \E o \in Outcomes : TerminalAppend(c, o)
    /\ Handle(c, NoHandle)
    /\ UNCHANGED <<authVars, receipts, history, losses>>

\* The process dies.
Kill(c) ==
    /\ handles[c].state # "none"
    /\ Handle(c, NoHandle)
    /\ UNCHANGED <<authVars, journals, receipts, history, losses>>

\* The machine loses power, and every process with it.
PowerLoss ==
    /\ losses < Losses
    /\ losses' = losses + 1
    /\ MarkersLost
    /\ journals' \in {js \in [Conns -> UNION {Survivors(journals[c]) : c \in Conns}] :
                         \A c \in Conns : js[c] \in Survivors(journals[c])}
    /\ handles' = [c \in Conns |-> NoHandle]
    /\ receipts' = {}
    /\ UNCHANGED history

-----------------------------------------------------------------------------
(* The end of a method *)

\* append_or_burn: the method has turned the handle into pending before the
\* append, and turns it into done when the append succeeds.
Commit(c, pending, done, r, o) ==
    /\ Room(c)
    /\ journals' = [journals EXCEPT ![c] = Appended(@, r, o)]
    /\ Handle(c, IF o = "ok" THEN [done EXCEPT !.checked = FALSE] ELSE BurnInMemory(pending))

\* A variant: the range is returned although its append failed.
ExposeUnjournaled(c, r, o) ==
    exposed' = exposed \cup {[conn |-> c, at |-> Len(journals[c].log) + 1, rec |-> r]}

\* The caller receives the range a record describes.
Expose(c, r, o) ==
    exposed' = IF o = "ok"
               THEN exposed \cup {[conn |-> c, at |-> Len(journals[c].log) + 1, rec |-> r]}
               ELSE exposed

=============================================================================
