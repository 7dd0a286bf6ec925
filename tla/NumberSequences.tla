-------------------------- MODULE NumberSequences --------------------------
(***************************************************************************)
(* Formatted sequence numbers: a counter for each code and period, and a   *)
(* format that shows the number with parts of its date.                    *)
(*                                                                         *)
(* Time is counted in days; a month has MonthLength of them.               *)
(***************************************************************************)
EXTENDS Integers, Sequences

CONSTANTS
  Codes,        (* type codes with their params: the keys of the counters   *)
  RotateBy,     (* code -> when its counter starts anew                     *)
  Format,       (* code -> the parts of the date that its format shows; the *)
                (* format keeps the parts and the number apart              *)
  StartMonth,   (* code -> first month of its fiscal year, from startMonth  *)
                (* or registerDate                                          *)
  ReferenceYear,(* code -> 1953, or the year of registerDate                *)
  Callers,
  Days,         (* bound: the days on which something happens               *)
  MonthLength,  (* bound: the days in a month                               *)
  MaxIssued,    (* bound: the numbers issued                                *)
  SequenceFaults(* a subset of AllSequenceFaults                            *)

Rotations == {"none", "daily", "monthly", "yearly", "fiscal_yearly"}
Parts == {"fiscal_year", "year", "month", "day"}
AllSequenceFaults ==
  {"midnight"}  (* a day may end between the two reads of the clock         *)

ASSUME CodesAssumption ==
  /\ RotateBy \in [Codes -> Rotations]
  /\ Format \in [Codes -> SUBSET Parts]
  /\ StartMonth \in [Codes -> 1 .. 12] /\ ReferenceYear \in [Codes -> Int]
ASSUME DaysAssumption == Days \subseteq Nat /\ MonthLength \in Nat \ {0} /\ MaxIssued \in Nat
ASSUME SequenceFaultsAssumption == SequenceFaults \subseteq AllSequenceFaults

VARIABLES
  today,    (* the clock                                                    *)
  counter,  (* code -> period -> the last number, 0 if there is no row      *)
  asking,   (* caller -> the request between its clock and its counter      *)
  issued    (* the numbers issued, in order                                 *)

sequenceVars == <<today, counter, asking, issued>>

YearOf(d)  == d \div (12 * MonthLength)
MonthOf(d) == ((d \div MonthLength) % 12) + 1
DayOf(d)   == (d % MonthLength) + 1

(* Seeded bug: the first month of the fiscal year is still in the old one. *)
GetFiscalYearLate(d, start, reference) ==
  (IF MonthOf(d) <= start THEN YearOf(d) - 1 ELSE YearOf(d)) - reference + 1

GetFiscalYear(d, start, reference) ==
  (IF MonthOf(d) < start THEN YearOf(d) - 1 ELSE YearOf(d)) - reference + 1

(* The period of a counter; a fiscal year starts in April here, whatever   *)
(* the code's start month is.                                              *)
GetRotateValue(rotateBy, d) ==
  CASE rotateBy = "fiscal_yearly" -> <<IF MonthOf(d) < 4 THEN YearOf(d) - 1 ELSE YearOf(d), 0, 0>>
    [] rotateBy = "yearly"        -> <<YearOf(d), 0, 0>>
    [] rotateBy = "monthly"       -> <<YearOf(d), MonthOf(d), 0>>
    [] rotateBy = "daily"         -> <<YearOf(d), MonthOf(d), DayOf(d)>>
    [] rotateBy = "none"          -> <<0, 0, 0>>

CreateFormatDict(code, d) ==
  [fiscal_year |-> GetFiscalYear(d, StartMonth[code], ReferenceYear[code]),
   year |-> YearOf(d), month |-> MonthOf(d), day |-> DayOf(d)]

Periods == {GetRotateValue(RotateBy[code], d) : code \in Codes, d \in Days}
NoRequest == [code |-> "none"]

(* What is printed: the number, and the parts that the format shows.       *)
CreateFormattedNo(code, no, dict) == <<no, [part \in Format[code] |-> dict[part]]>>

SequenceInit ==
  /\ today \in Days
  /\ counter = [code \in Codes |-> [p \in Periods |-> 0]]
  /\ asking = [c \in Callers |-> NoRequest]
  /\ issued = <<>>

Tick ==
  /\ \E d \in Days : d > today /\ today' = d
  /\ UNCHANGED <<counter, asking, issued>>

(* A request for a number of this date, or of today if no date is given:   *)
(* the fiscal year and the period are computed before the counter is       *)
(* reached, from two reads of the clock.                                   *)
Ask(c, code, date, given) ==
  /\ asking[c] = NoRequest /\ Len(issued) < MaxIssued
  /\ \E later \in Days :
       /\ \/ later = date
          \/ ~given /\ "midnight" \in SequenceFaults /\ later > date
       /\ today' = IF given THEN today ELSE later
       /\ asking' = [asking EXCEPT ![c] =
                       [code |-> code, dict |-> CreateFormatDict(code, date),
                        period |-> GetRotateValue(RotateBy[code], later)]]
  /\ UNCHANGED <<counter, issued>>

(* The atomic increment of the counter, and the number with its format.    *)
Issue(c) ==
  LET r == asking[c]
      no == counter[r.code][r.period] + 1
  IN
  /\ r # NoRequest
  /\ counter' = [counter EXCEPT ![r.code][r.period] = no]
  /\ issued' = Append(issued, [code |-> r.code, period |-> r.period, no |-> no,
                               formatted |-> CreateFormattedNo(r.code, no, r.dict)])
  /\ asking' = [asking EXCEPT ![c] = NoRequest]
  /\ UNCHANGED today

SequenceNext ==
  \/ Tick
  \/ \E c \in Callers : \/ \E code \in Codes, date \in Days :
                            Ask(c, code, date, TRUE)
                       \/ \E code \in Codes : Ask(c, code, today, FALSE)
                       \/ Issue(c)

SequenceSpec == SequenceInit /\ [][SequenceNext]_sequenceVars

(***************************************************************************)
(* Properties.                                                             *)
(***************************************************************************)

(* The format tells apart the periods in which the counter starts anew:    *)
(* for fiscal years this takes a fiscal year that starts in April.         *)
ShowsItsPeriod(code) ==
  CASE RotateBy[code] = "fiscal_yearly" -> "fiscal_year" \in Format[code] /\ StartMonth[code] = 4
    [] RotateBy[code] = "yearly"  -> "year" \in Format[code]
    [] RotateBy[code] = "monthly" -> {"year", "month"} \subseteq Format[code]
    [] RotateBy[code] = "daily"   -> {"year", "month", "day"} \subseteq Format[code]
    [] RotateBy[code] = "none"    -> TRUE

(* No formatted number is issued twice for a code, though requests run in  *)
(* parallel, bring dates of their own and end after the period did, and    *)
(* the counter starts from 1 in every period.                              *)
FormattedIsUnique ==
  \A j, k \in DOMAIN issued :
    j # k /\ issued[j].code = issued[k].code /\ ShowsItsPeriod(issued[j].code) =>
      issued[j].formatted # issued[k].formatted
=============================================================================
