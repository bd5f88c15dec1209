---------------------------- MODULE OperationLedger ----------------------------
(* The record of lifecycle operations (src/src/lifecycle/operation-ledger.ts): a    *)
(* file to which every event is appended and synced, and an index of it in memory.  *)
(*                                                                                  *)
(* Calls queue one behind the other, so a call is one action; whatever fails in its *)
(* write, or ends the process there, is a write that comes out otherwise.  A call   *)
(* with an invalid argument changes nothing.                                        *)
EXTENDS FiniteSets, Naturals, Sequences, SequencesExt

CONSTANTS
  Operations,  \* operation ids
  Payloads,    \* what a request says: engine, action, session, generation and detail
  States,      \* OperationState
  MaxWrites,   \* bound: writes
  MaxLives     \* bound: processes, one after the other

ASSUME LedgerAssumption == MaxWrites \in Nat /\ MaxLives \in Nat \ {0}

VARIABLES
  lines,   \* the file: each line with what it says, and whether a newline ends it
  known,   \* what was read into memory and written since, in the order of the file
  loaded,  \* loadedFromDisk
  life,    \* the identity of the process
  writes,  \* writes so far; a record's updatedAt
  acked    \* history: the records that were acknowledged, and whether the file's last
           \* line had its newline when each was written

ledgerVars == <<lines, known, loaded, life, writes, acked>>

Garbage == [stamp |-> 0]
Records == [op : Operations, request : Payloads, state : States, by : 1..MaxLives,
            stamp : 1..MaxWrites]

LedgerInit ==
  /\ lines = <<>> /\ known = <<>> /\ loaded = FALSE
  /\ life = 1 /\ writes = 0 /\ acked = <<>>

LedgerTypeOK ==
  /\ lines \in Seq([says : Records \cup {Garbage}, ended : BOOLEAN])
  /\ known \in Seq(Records \cup {Garbage}) /\ loaded \in BOOLEAN
  /\ life \in 1..MaxLives /\ writes \in 0..MaxWrites
  /\ acked \in Seq([record : Records, clean : BOOLEAN])

-------------------------------------------------------------------------------
\* validRecord
Valid(entry) == entry # Garbage

\* readLocked
OnDisk == [i \in DOMAIN lines |-> lines[i].says]

\* ensureLoadedLocked
Index == IF loaded THEN known ELSE OnDisk

\* latest: the last of the operation's history, of which a line that is no record has no
\* part.
Latest(op) ==
  LET history == {i \in DOMAIN Index : Valid(Index[i]) /\ Index[i].op = op}
  IN  IF history = {} THEN Garbage ELSE Index[Max(history)]

LastEnded == lines = <<>> \/ Last(lines).ended

XWritten(text) ==
  IF LastEnded THEN Append(lines, [text EXCEPT !.ended = FALSE])
  ELSE Append(Front(lines), [says |-> Garbage, ended |-> FALSE])

\* The file with a text appended: one that follows a line without its newline is a part
\* of that line.
Written(text) ==
  IF LastEnded THEN Append(lines, text)
  ELSE Append(Front(lines), [says |-> Garbage, ended |-> text.ended])

\* What a failed append leaves: nothing, a part, all but the newline, or the whole
\* record, whose sync failed.
Remains(record) ==
  {lines} \cup {Written(text) : text \in
     {[says |-> Garbage, ended |-> FALSE], [says |-> record, ended |-> FALSE],
      [says |-> record, ended |-> TRUE]}}

SameRequest(r, request) == r.request = request

SameEvent(r, state) == r.state = state /\ r.by = life

\* Every call loads the index first.
Looks == known' = Index /\ loaded' = TRUE

\* append, for an id that another request has, or an event that is already there.
AppendAnswered(op, request, state) ==
  /\ Latest(op) # Garbage
  /\ SameRequest(Latest(op), request) => SameEvent(Latest(op), state)
  /\ Looks
  /\ UNCHANGED <<lines, life, writes, acked>>

\* append otherwise: the first event of an operation, or a transition.
Appended(op, request, state) ==
  LET record == [op |-> op, request |-> request, state |-> state, by |-> life,
                 stamp |-> writes + 1]
  IN
  /\ writes < MaxWrites
  /\ Latest(op) # Garbage =>
       SameRequest(Latest(op), request) /\ ~ SameEvent(Latest(op), state)
  /\ writes' = writes + 1 /\ loaded' = TRUE
  /\ \/ /\ lines' = Written([says |-> record, ended |-> TRUE])
        /\ known' = Append(Index, record)
        /\ acked' = Append(acked, [record |-> record, clean |-> LastEnded])
     \/ /\ lines' \in Remains(record)
        /\ known' = Index
        /\ UNCHANGED acked
  /\ UNCHANGED life

\* get, history, list
LedgerRead ==
  /\ Looks
  /\ UNCHANGED <<lines, life, writes, acked>>

\* load
Loaded ==
  /\ known' = OnDisk /\ loaded' = TRUE
  /\ UNCHANGED <<lines, life, writes, acked>>

\* The next process starts with an empty index.
LedgerRestart ==
  /\ life < MaxLives /\ life' = life + 1
  /\ known' = <<>> /\ loaded' = FALSE
  /\ UNCHANGED <<lines, writes, acked>>

LedgerNext ==
  \/ \E op \in Operations, request \in Payloads, state \in States :
       AppendAnswered(op, request, state) \/ Appended(op, request, state)
  \/ LedgerRead
  \/ Loaded
  \/ LedgerRestart

-------------------------------------------------------------------------------
(* Properties.                                                                      *)

CleanOnes == {i \in DOMAIN acked : acked[i].clean}

\* Whatever appends fail or are cut short, and whenever the process ends: the file gives
\* back every acknowledged record, once and in the order of the acknowledgements, but for
\* one that was written right behind a torn line; and an operation id once acknowledged
\* for a request is never acknowledged for another one.
LedgerKeepsItsWord ==
  /\ \A i \in CleanOnes : \E m \in DOMAIN lines : lines[m].says = acked[i].record
  /\ \A i, j \in CleanOnes, m, n \in DOMAIN lines :
       lines[m].says = acked[i].record /\ lines[n].says = acked[j].record =>
         (i < j <=> m < n)
  /\ \A i \in CleanOnes, j \in DOMAIN acked :
       LET first == acked[i].record
           later == acked[j].record
       IN  i < j /\ first.op = later.op => later.request = first.request
=============================================================================
