----------------------- MODULE DuplicateMessageDetector -----------------------
(***************************************************************************)
(* src/logic/DuplicateMessageDetector.ts: which messages of one message    *)
(* chain (a publisher's messages on a stream) a node has seen.             *)
(*                                                                         *)
(* A NumberPair is ordered by its first and then by its second number;     *)
(* nothing but that order is used, so a pair is its rank among all pairs,  *)
(* a number below Infinity.  The field gaps is a sequence of half-closed   *)
(* intervals (lower, upper], each a pair <<lower, upper>>.                 *)
(***************************************************************************)
EXTENDS Integers, Sequences, FiniteSets

CONSTANTS Infinity,          \* above every number
          MaxNumberOfGaps

ASSUME InfinityAssumption == Infinity \in Nat
ASSUME GapsAssumption == MaxNumberOfGaps \in Nat \ {0}

Number == 0 .. Infinity - 1

Gap == Number \X (1 .. Infinity)

\* previousNumber when the message does not refer to one before it
NoNumber == -1

VARIABLES gaps,      \* the field gaps
          outcome,   \* what the last markAndCheck returned or threw
          accepted,  \* history: the numbers reported as not yet seen
          first,     \* history: the first number, or NoNumber
          forgot     \* history: a gap was dropped, or numbers were skipped

vars == <<gaps, outcome, accepted, first, forgot>>

-----------------------------------------------------------------------------
\* splice(i, 1, ...new)
Splice(s, i, new) == SubSeq(s, 1, i - 1) \o new \o SubSeq(s, i + 1, Len(s))

\* Mutants of Remains: a gap whose last number arrives is kept although it is
\* empty; what is above is given up.
RemainsEmpty(gap, previousNumber, number) ==
    LET above == <<number, gap[2]>>
    IN  IF previousNumber = gap[1] THEN <<above>>
        ELSE <<<<gap[1], previousNumber>>, above>>

RemainsAbove(gap, previousNumber, number) ==
    IF number = gap[2] THEN <<>> ELSE <<<<number, gap[2]>>>>

\* What is left of a gap when the message after previousNumber arrives in it.
Remains(gap, previousNumber, number) ==
    LET below == <<gap[1], previousNumber>>
        above == <<number, gap[2]>>
    IN  IF previousNumber = gap[1]
        THEN IF number = gap[2] THEN <<>> ELSE <<above>>
        ELSE IF number = gap[2] THEN <<below>> ELSE <<below, above>>

\* dropLowestGapIfOverMaxNumberOfGaps
DropLowestGap(s) == IF Len(s) > MaxNumberOfGaps THEN Tail(s) ELSE s

\* Mutant of Stops: the last comparison is not strict.
StopsAtStart(gap, previousNumber, number) ==
    \/ previousNumber >= gap[1]
    \/ number >= gap[1]

\* The loop runs from the highest gap down, until it returns or throws.
Stops(gap, previousNumber, number) ==
    \/ previousNumber >= gap[2]
    \/ previousNumber >= gap[1]
    \/ number > gap[1]

StopAt(s, previousNumber, number, i) ==
    /\ i \in DOMAIN s
    /\ Stops(s[i], previousNumber, number)
    /\ \A j \in DOMAIN s : j > i => ~ Stops(s[j], previousNumber, number)

-----------------------------------------------------------------------------
Init == /\ gaps = <<>>
        /\ outcome = "none"
        /\ accepted = {}
        /\ first = NoNumber
        /\ forgot = FALSE

Accept(number, newGaps) ==
    /\ gaps' = newGaps
    /\ outcome' = "new"
    /\ accepted' = accepted \cup {number}

Refuse(how) ==
    /\ outcome' = how
    /\ UNCHANGED <<gaps, accepted, first, forgot>>

InvalidNumbering(previousNumber, number) ==
    /\ previousNumber # NoNumber
    /\ previousNumber >= number
    /\ Refuse("InvalidNumberingError")

FirstNumber(previousNumber, number) ==
    /\ previousNumber < number
    /\ gaps = <<>>
    /\ Accept(number, <<<<number, Infinity>>>>)
    /\ first' = number
    /\ UNCHANGED forgot

\* Mutant of WithoutPrevious: the latest number is accepted again.
WithoutPreviousAgain(number) ==
    /\ gaps # <<>>
    /\ LET last == Len(gaps)
       IN  IF number >= gaps[last][1]
           THEN /\ Accept(number, [gaps EXCEPT ![last] = <<number, @[2]>>])
                /\ forgot' = (forgot \/ number > gaps[last][1] + 1)
                /\ UNCHANGED first
           ELSE Refuse("duplicate")

\* previousNumber is not provided: only the latest number is compared.
WithoutPrevious(number) ==
    /\ gaps # <<>>
    /\ LET last == Len(gaps)
       IN  IF number > gaps[last][1]
           THEN /\ Accept(number, [gaps EXCEPT ![last] = <<number, @[2]>>])
                /\ forgot' = (forgot \/ number > gaps[last][1] + 1)
                /\ UNCHANGED first
           ELSE Refuse("duplicate")

WithPrevious(previousNumber, number) ==
    /\ previousNumber # NoNumber
    /\ previousNumber < number
    /\ gaps # <<>>
    /\ \/ /\ \A i \in DOMAIN gaps : ~ Stops(gaps[i], previousNumber, number)
          /\ Refuse("duplicate")
       \/ \E i \in DOMAIN gaps :
            /\ StopAt(gaps, previousNumber, number, i)
            /\ \/ /\ previousNumber >= gaps[i][2]
                  /\ Refuse("duplicate")
               \/ /\ previousNumber < gaps[i][2]
                  /\ previousNumber < gaps[i][1] \/ number > gaps[i][2]
                  /\ Refuse("GapMisMatchError")
               \/ /\ previousNumber < gaps[i][2]
                  /\ previousNumber >= gaps[i][1]
                  /\ number <= gaps[i][2]
                  /\ LET s == Splice(gaps, i, Remains(gaps[i], previousNumber, number))
                     IN  /\ Accept(number, DropLowestGap(s))
                         /\ forgot' = (forgot \/ Len(s) > MaxNumberOfGaps
                                               \/ number > previousNumber + 1)
                  /\ UNCHANGED first

MarkAndCheck(previousNumber, number) ==
    \/ InvalidNumbering(previousNumber, number)
    \/ FirstNumber(previousNumber, number)
    \/ previousNumber = NoNumber /\ WithoutPrevious(number)
    \/ WithPrevious(previousNumber, number)

\* Any message may arrive, however it is numbered.
Next == \E number \in Number, previousNumber \in Number \cup {NoNumber} :
            MarkAndCheck(previousNumber, number)

Spec == Init /\ [][Next]_vars

-----------------------------------------------------------------------------
\* s has a gap in which number lies.
InGap(s, number) == \E i \in DOMAIN s : s[i][1] < number /\ number <= s[i][2]

\* No gap is empty, and the next one starts after the last has ended.
Ascending(s) ==
    /\ \A i \in DOMAIN s : s[i][1] < s[i][2]
    /\ \A i, j \in DOMAIN s : i < j => s[i][2] < s[j][1]

TypeOK == /\ gaps \in Seq(Gap)
          /\ outcome \in {"none", "new", "duplicate", "InvalidNumberingError",
                          "GapMisMatchError"}
          /\ accepted \subseteq Number
          /\ first \in Number \cup {NoNumber}
          /\ forgot \in BOOLEAN

\* The invariants the code lists at lines 143-148: gaps are in ascending order,
\* no two intersect, none is empty and the last is (n, Infinity].
GapsAscend ==
    /\ Ascending(gaps)
    /\ gaps # <<>> => gaps[Len(gaps)][2] = Infinity
    /\ Len(gaps) <= MaxNumberOfGaps

\* The first call, which has no gaps to look at, happens once: afterwards there
\* is always a gap left, also when the lowest is dropped.
NeverForgetsAll == gaps = <<>> <=> accepted = {}

\* A number that was accepted is in no gap.
AcceptedNotInGaps == \A number \in accepted : ~ InGap(gaps, number)

\* No number is ever accepted twice, however messages are numbered, reordered
\* and repeated, with references to earlier messages or without: no message is
\* propagated in circles.
AcceptedOnce ==
    [][\A number \in Number, previousNumber \in Number \cup {NoNumber} :
         MarkAndCheck(previousNumber, number) /\ outcome' = "new" =>
             number \notin accepted]_vars

\* A message that refers to the one just before it, as those of a consistent
\* publisher do, never causes an error, whatever came before it.
NoErrors ==
    [][\A number \in Number :
         MarkAndCheck(number - 1, number) =>
             outcome' \notin {"InvalidNumberingError", "GapMisMatchError"}]_vars

\* Nothing is lost: every number above the first is accepted or still may be,
\* unless a gap was dropped or a message claimed that it does not exist.
NothingLost ==
    first # NoNumber /\ ~ forgot =>
        \A number \in Number :
            number > first => (number \in accepted \/ InGap(gaps, number))
=============================================================================
