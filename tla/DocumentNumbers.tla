---------------------------- MODULE DocumentNumbers ----------------------------
(***************************************************************************)
(* The numbers of orders, shipments, returns, invoices and credit notes    *)
(* (orderSequenceRepository.next, documentSequenceRepository.next): a row  *)
(* per series and financial year, advanced by a compare-and-set in a loop  *)
(* that gives up after a number of attempts.                               *)
(***************************************************************************)
EXTENDS Naturals, FiniteSets

CONSTANTS
    Takers,       \* requests that need a number
    Series,       \* series and financial year: the rows' keys
    SeriesOf,     \* the series each request draws from
    MaxAttempts   \* the retry budget

ASSUME NumbersAssumption ==
    /\ SeriesOf \in [Takers -> Series]
    /\ MaxAttempts \in Nat \ {0}

VARIABLES
    lastNumber,  \* the rows: 0 while a series has none
    taker        \* each request: where it stands, what it read, what it got

numberVars == <<lastNumber, taker>>

NumbersTypeOK ==
    /\ lastNumber \in [Series -> Nat]
    /\ taker \in [Takers -> [at: {"read", "write", "done", "failed"}, read: Nat, got: Nat,
                             attempts: 0..MaxAttempts]]

NumbersInit ==
    /\ lastNumber = [s \in Series |-> 0]
    /\ taker = [t \in Takers |-> [at |-> "read", read |-> 0, got |-> 0, attempts |-> 0]]

ReadLast(t) ==
    /\ taker[t].at = "read"
    /\ taker' = IF taker[t].attempts = MaxAttempts
                THEN [taker EXCEPT ![t].at = "failed"]
                ELSE [taker EXCEPT ![t].at = "write", ![t].read = lastNumber[SeriesOf[t]],
                                   ![t].attempts = @ + 1]
    /\ UNCHANGED lastNumber

\* A faulty insert that takes a row created meanwhile for its own.
InsertOrAny(t) == taker[t].read = 0 \/ lastNumber[SeriesOf[t]] = taker[t].read
\* The unique key (no row was read) or the compare-and-set on lastNumber decides.
Wins(t) == lastNumber[SeriesOf[t]] = taker[t].read

WriteNext(t) ==
    /\ taker[t].at = "write"
    /\ IF Wins(t)
       THEN /\ lastNumber' = [lastNumber EXCEPT ![SeriesOf[t]] = taker[t].read + 1]
            /\ taker' = [taker EXCEPT ![t].at = "done", ![t].got = taker[t].read + 1]
       ELSE taker' = [taker EXCEPT ![t].at = "read"] /\ UNCHANGED lastNumber

NumbersNext == \E t \in Takers : ReadLast(t) \/ WriteNext(t)

NumbersSpec == NumbersInit /\ [][NumbersNext]_numberVars

-------------------------------------------------------------------------------
Served(s) == {t \in Takers : SeriesOf[t] = s /\ taker[t].at = "done"}

\* "Concurrency cannot hand out a duplicate and cannot leave a gap"
\* (fulfilmentNumber.service.ts): whoever races for the first row or the next number,
\* the numbers of a series are different, and they are all those up to its counter.
GaplessSeries ==
    \A s \in Series :
        /\ {taker[t].got : t \in Served(s)} = 1..lastNumber[s]
        /\ \A t, u \in Served(s) : taker[t].got = taker[u].got => t = u

===============================================================================
