-------------------------------- MODULE Tags --------------------------------
(***************************************************************************)
(* The order of values, libkc3/compare.c, that the indexes of the database *)
(* keep their facts in and find them by.                                   *)
(*                                                                         *)
(* A number is a tag type and twice its value, so that halves are whole.   *)
(* The widths are scaled down and keep their order: 8 bits are 2, 16 are   *)
(* 4, 32 are 7 and 64 are 9; F32 holds the 16-bit integers and not the     *)
(* 32-bit ones, F64 the 32-bit and not the 64-bit ones, F80 all of them.   *)
(***************************************************************************)
EXTENDS Integers, Sequences, FiniteSetsExt

CONSTANTS Have,  \* the types the build has: F80 and F128 are optional
          NaN    \* not a number

(* e_tag_type, the types of this model. *)
Rank == [F32 |-> 5, F64 |-> 6, F80 |-> 7, F128 |-> 8, INTEGER |-> 10,
         RATIO |-> 11, SW |-> 12, S64 |-> 13, S32 |-> 14, S16 |-> 15,
         S8 |-> 16, U8 |-> 17, U16 |-> 18, U32 |-> 19, U64 |-> 20, UW |-> 21,
         PLIST |-> 22, MAP |-> 23, PCOMPLEX |-> 26, PSYM |-> 32, STR |-> 38,
         TIME |-> 39, PTUPLE |-> 40]

(* The digits of the floats, the half counted, and twice the first number  *)
(* of U16 that is none of S16.                                             *)
Digits == [F32 |-> 5, F64 |-> 8, F80 |-> 10, F128 |-> 11]
S16End == 16

Machine == {"S8", "S16", "S32", "S64", "SW", "U8", "U16", "U32", "U64", "UW"}
Float == DOMAIN Digits \cap Have
Exact == Machine \cup {"INTEGER"}

(***************************************************************************)
(* Conversions                                                             *)
(***************************************************************************)
Abs(v) == IF v < 0 THEN -v ELSE v

(* The distance of the floats around v. *)
Unit(type, v) ==
  2^Cardinality({x \in 0..12 : Abs(v) >= 2^(Digits[type] + x)})

(* To a float: the nearest that has its digits, the even one of two. *)
Nearest(unit, v) ==
  unit * IF \/ 2 * (v % unit) > unit
            \/ 2 * (v % unit) = unit /\ (v \div unit) % 2 = 1
         THEN v \div unit + 1 ELSE v \div unit

Round(type, v) == IF v = NaN THEN NaN ELSE Nearest(Unit(type, v), v)

(* (s16) of an unsigned 16-bit integer. *)
AsS16(v) == IF v >= S16End THEN v - 2 * S16End ELSE v

(***************************************************************************)
(* Numbers                                                                 *)
(***************************************************************************)
Less == -1
Equal == 0
Greater == 1

(* COMPARE_DEF: what is neither less nor greater is equal. *)
Cmp(v, w) ==
  IF NaN \in {v, w} THEN Equal
  ELSE IF v < w THEN Less ELSE IF v > w THEN Greater ELSE Equal

ByType(a, b) == Cmp(Rank[a.type], Rank[b.type])
ByValue(a, b) == Cmp(a.v, b.v)
AsFloat(type, a, b) == Cmp(Round(type, a.v), Round(type, b.v))

(* The rows of compare_tag: a.type, then b.type.                           *)
RowF32(a, b) ==
  CASE b.type \in Float -> ByValue(a, b)
    [] b.type \in Exact \cup {"RATIO", "PCOMPLEX"} -> AsFloat("F32", a, b)
    [] OTHER -> ByType(a, b)

(* F64, F80 and F128.                                                      *)
RowFloat(a, b) ==
  CASE b.type \in Float -> ByValue(a, b)
    [] b.type \in Exact \cup {"PCOMPLEX"} -> AsFloat(a.type, a, b)
    [] OTHER -> ByType(a, b)

RowInteger(a, b) ==
  CASE b.type = "F32" -> Cmp(Round("F64", a.v), b.v)
    [] b.type \in Float \ {"F32"} -> Cmp(Round(b.type, a.v), b.v)
    [] b.type \in Exact -> ByValue(a, b)
    [] OTHER -> ByType(a, b)

(* RATIO and PCOMPLEX know their own type only.                            *)
RowSame(a, b) == IF a.type = b.type THEN ByValue(a, b) ELSE ByType(a, b)

(* Faulty: no row for big integers.                                        *)
RowMachineOnly(a, b) ==
  CASE b.type \in Float -> AsFloat(b.type, a, b)
    [] b.type \in Machine -> ByValue(a, b)
    [] OTHER -> ByType(a, b)

(* S8, S32, S64, SW, U8, U32, U64 and UW.                                  *)
RowMachine(a, b) ==
  CASE b.type \in Float -> AsFloat(b.type, a, b)
    [] b.type \in Exact -> ByValue(a, b)
    [] OTHER -> ByType(a, b)

(* F80 and F128 are missing.                                               *)
RowS16(a, b) ==
  IF b.type \in {"F80", "F128"} THEN ByType(a, b) ELSE RowMachine(a, b)

(* S8 and S16 are compared as S16. *)
RowU16(a, b) ==
  IF b.type \in {"S8", "S16"} THEN Cmp(AsS16(a.v), b.v) ELSE RowMachine(a, b)

CompareNumber(a, b) ==
  CASE a.type = "F32" -> RowF32(a, b)
    [] a.type \in Float \ {"F32"} -> RowFloat(a, b)
    [] a.type = "INTEGER" -> RowInteger(a, b)
    [] a.type \in {"RATIO", "PCOMPLEX"} -> RowSame(a, b)
    [] a.type = "S16" -> RowS16(a, b)
    [] a.type = "U16" -> RowU16(a, b)
    [] OTHER -> RowMachine(a, b)

(***************************************************************************)
(* Values with items                                                       *)
(***************************************************************************)
(* What comparing the items of both at each place finds.                   *)
Compared(s, t) ==
  [n \in 1..Min({Len(s), Len(t)}) |-> CompareNumber(s[n], t[n])]

FirstOf(results, otherwise) ==
  LET places == {n \in DOMAIN results : results[n] # Equal} IN
  IF places = {} THEN otherwise ELSE results[Min(places)]

(* compare_list, compare_str, compare_time. *)
CompareWords(s, t) == FirstOf(Compared(s, t), Cmp(Len(s), Len(t)))

Counted == {"PTUPLE", "MAP"}
Numeric(a) == a.type \in Exact \cup Float \cup {"RATIO", "PCOMPLEX"}

(* compare_tuple and, key and value by turns, compare_map look at the      *)
(* number of items first.                                                  *)
CompareItems(a, b) ==
  IF a.type \in Counted /\ Len(a.items) # Len(b.items)
  THEN Cmp(Len(a.items), Len(b.items))
  ELSE CompareWords(a.items, b.items)

(* compare_tag: the rows of the numbers, then by type.                     *)
CompareTag(a, b) ==
  IF Numeric(a) THEN CompareNumber(a, b)
  ELSE IF a.type # b.type THEN ByType(a, b)
  ELSE CompareItems(a, b)

(***************************************************************************)
(* The order meant: numbers by their values, then the other types by their *)
(* ranks, each like words or by the number of its items first.             *)
(***************************************************************************)
Before(s, t) ==
  \/ \E n \in 1..Len(s) :
       /\ n <= Len(t)
       /\ s[n].v < t[n].v
       /\ \A m \in 1..(n - 1) : s[m].v = t[m].v
  \/ /\ Len(s) < Len(t)
     /\ \A n \in 1..Len(s) : s[n].v = t[n].v

InOrder(a, b) ==
  IF Numeric(a) /\ Numeric(b) THEN a.v < b.v
  ELSE IF a.type # b.type THEN Rank[a.type] < Rank[b.type]
  ELSE IF a.type \in Counted /\ Len(a.items) # Len(b.items)
       THEN Len(a.items) < Len(b.items)
  ELSE Before(a.items, b.items)
=============================================================================
