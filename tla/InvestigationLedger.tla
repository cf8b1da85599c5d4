------------------------ MODULE InvestigationLedger ------------------------
(***************************************************************************)
(* services/investigation_ledger.py: every decision of an investigation is *)
(* appended to a list in memory and, best effort, to a table.  A step's    *)
(* number is the length of the list, which a restart or clear() empties    *)
(* and the table does not: each such life numbers its steps from zero      *)
(* again.  Steps are known here by their order of recording.               *)
(***************************************************************************)
EXTENDS Integers, Sequences, FiniteSets, SequencesExt

CONSTANTS
    LedgerIds,     \* investigations
    MaxSteps, MaxLives   \* bounds

VARIABLES
    entries,    \* _store: [investigation -> steps of this life, in order]
    rows,       \* InvestigationLedgerRecord: set of [inv, index, step]
    steps,      \* every step recorded: [inv, life]
    life,       \* [investigation -> number of its current life]
    replayed    \* the last replay: [inv, seq], or NoReplay

ledgerVars == <<entries, rows, steps, life, replayed>>

NoReplay == [inv |-> "none", seq |-> <<>>]
RowsOf(inv) == {r \in rows : r.inv = inv}

LedgerInit ==
    /\ entries = [i \in LedgerIds |-> <<>>] /\ rows = {} /\ steps = <<>>
    /\ life = [i \in LedgerIds |-> 1] /\ replayed = NoReplay

\* Mutant: a step whose insert failed is taken back from the list.
MutRemembered(inv, step, persisted) ==
    IF persisted THEN Append(entries[inv], step) ELSE entries[inv]
Remembered(inv, step, persisted) == Append(entries[inv], step)

\* record: the insert may fail, which is swallowed.
Record(inv) ==
    LET step == Len(steps) + 1
    IN  /\ Len(steps) < MaxSteps
        /\ steps' = Append(steps, [inv |-> inv, life |-> life[inv]])
        /\ \E persisted \in BOOLEAN :
             /\ entries' = [entries EXCEPT ![inv] = Remembered(inv, step, persisted)]
             /\ rows' = IF persisted
                        THEN rows \cup {[inv |-> inv, index |-> Len(entries[inv]), step |-> step]}
                        ELSE rows
        /\ replayed' = NoReplay
        /\ UNCHANGED life

\* The rows by index; rows of one index come in any order.
DatabaseOrders(inv) ==
    {s \in SetToSeqs(RowsOf(inv)) :
        \A i, j \in DOMAIN s : i < j => s[i].index <= s[j].index}

\* replay: the list, unless it is empty; the table may not answer.
Replay(inv) ==
    /\ IF entries[inv] # <<>>
       THEN replayed' = [inv |-> inv, seq |-> entries[inv]]
       ELSE \/ \E s \in DatabaseOrders(inv) :
                  replayed' = [inv |-> inv, seq |-> [i \in DOMAIN s |-> s[i].step]]
            \/ replayed' = NoReplay
    /\ UNCHANGED <<entries, rows, steps, life>>

ClearLedger(inv) ==
    /\ entries[inv] # <<>> /\ life[inv] < MaxLives
    /\ entries' = [entries EXCEPT ![inv] = <<>>]
    /\ life' = [life EXCEPT ![inv] = @ + 1]
    /\ replayed' = NoReplay
    /\ UNCHANGED <<rows, steps>>

LedgerRestart ==
    /\ \A i \in LedgerIds : life[i] < MaxLives
    /\ entries' = [i \in LedgerIds |-> <<>>]
    /\ life' = [i \in LedgerIds |-> life[i] + 1]
    /\ replayed' = NoReplay
    /\ UNCHANGED <<rows, steps>>

LedgerNext ==
    \/ \E inv \in LedgerIds : Record(inv) \/ Replay(inv) \/ ClearLedger(inv)
    \/ LedgerRestart

LedgerSpec == LedgerInit /\ [][LedgerNext]_ledgerVars

-----------------------------------------------------------------------------
(***************************************************************************)
(* Properties                                                              *)
(***************************************************************************)

\* A replay tells each life of the investigation in the order it happened,
\* and a step is missing from it for one of two reasons only: its insert
\* failed and its life is over, or its life is over and the list already
\* holds steps of a newer one.  In particular nothing of the current life is
\* ever missing, whatever the database does.
ReplayAccounts ==
    replayed # NoReplay =>
        LET seq == replayed.seq
            own == {s \in DOMAIN steps : steps[s].inv = replayed.inv}
        IN  /\ \A i, j \in DOMAIN seq :
                  i < j /\ steps[seq[i]].life = steps[seq[j]].life => seq[i] < seq[j]
            /\ \A s \in own \ ToSet(seq) :
                  /\ steps[s].life < life[replayed.inv]
                  /\ entries[replayed.inv] # <<>> \/ ~\E r \in rows : r.step = s

LedgerTypeOK ==
    /\ steps \in Seq([inv : LedgerIds, life : Nat])
    /\ life \in [LedgerIds -> Nat]
    /\ entries \in [LedgerIds -> Seq(DOMAIN steps)]
    /\ rows \subseteq [inv : LedgerIds, index : Nat, step : DOMAIN steps]
    /\ IsFiniteSet(rows)

\* The list of an investigation is what its current life recorded, in order.
ListIsTheLife ==
    \A inv \in LedgerIds :
        LET list == entries[inv]
            current == {s \in DOMAIN steps : steps[s] = [inv |-> inv, life |-> life[inv]]}
        IN  /\ {list[k] : k \in DOMAIN list} = current
            /\ \A j, k \in DOMAIN list : j < k => list[j] < list[k]
            /\ \A s \in DOMAIN steps : steps[s].inv = inv => steps[s].life <= life[inv]

\* A row is of its step's investigation, and within a life the index orders
\* the rows as the steps were recorded; the current life's stay below the
\* number the next step gets.
RowsInOrder ==
    \A r \in rows :
        /\ steps[r.step].inv = r.inv
        /\ steps[r.step].life = life[r.inv] => r.index < Len(entries[r.inv])
        /\ \A q \in rows : q.inv = r.inv /\ steps[q.step].life = steps[r.step].life =>
               /\ q.step < r.step => q.index < r.index
               /\ q.step = r.step => q = r

\* The inductive strengthening behind ReplayAccounts.
LedgerInvariant == LedgerTypeOK /\ ListIsTheLife /\ RowsInOrder /\ ReplayAccounts

=============================================================================
