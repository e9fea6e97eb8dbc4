---------------------------- MODULE MCFactsQuery ----------------------------
(* FactsQuery.tla for TLC. *)
EXTENDS FactsQuery

Sym(letters) == [type |-> "PSYM", items |-> letters]
Num(type, v) == [type |-> type, v |-> v]
U(n) == Num("U8", 2 * n)
a == Sym(<<U(1)>>)
b == Sym(<<U(2)>>)
c == Sym(<<U(3)>>)
p == Sym(<<U(4)>>)
n == Sym(<<U(0), U(1)>>)

(* Integer literals have the narrowest type that holds them: one of each   *)
(* type, at an end of the next narrower one or at its own, of U16 up to    *)
(* the largest of S16; and fractions.  S32 and U32 are left out, whose     *)
(* rows are those of S64 and U64.                                          *)
Literals ==
  {Num("INTEGER", -514), Num("S64", -130), Num("S16", -16), Num("S8", -2), U(3),
   Num("U16", 14), Num("U64", 256), Num("INTEGER", 1024),
   Num("F32", -3), Num("F64", 15)}

(* Numbers of the types no literal has.  compare_tag has no row for some   *)
(* of their pairs and goes by the types: these are where that does no      *)
(* harm, the long floats below everything and the complex number above.    *)
(* A ratio would have to be above every float and below every integer of   *)
(* a machine type.                                                         *)
Cast ==
  {Num("SW", -22), Num("UW", 300), Num("F80", -600), Num("F128", -700),
   Num("PCOMPLEX", 1200)}

(* A longer tuple is above a shorter one, whatever is in them; not so a    *)
(* longer symbol.                                                          *)
Tuples ==
  {[type |-> "PTUPLE", items |-> <<U(1)>>], [type |-> "PTUPLE", items |-> <<U(0), U(1)>>]}

MCTriples ==
  {<<a, n, v>> : v \in Literals \cup Cast \cup Tuples}
    \cup {<<a, p, b>>, <<b, p, c>>, <<a, p, a>>, <<b, n, U(3)>>}

(* The larger half of U16 and a negative number.                           *)
WideTriples == {<<a, n, v>> : v \in {Num("U16", 24), Num("S8", -2), U(3)}}

(* Two buckets; facts that differ in their objects may have one hash.      *)
MCHash == [f \in MCTriples \cup WideTriples |-> Rank[f[3].type] % 3]

MCVarType == [x |-> "Tag", y |-> "Tag", z |-> "Tag", u |-> "U8"]
x == Var("x")
y == Var("y")
z == Var("z")
u == Var("u")
WideSpecs == {<< <<a, n, x>> >>}
MCSpecs ==
  {<< <<a, n, u>> >>, << <<x, y, z>> >>, << <<x, n, U(3)>> >>, << <<x, y, b>> >>,
   << <<a, x, a>> >>, << <<a, p, b>> >>, << <<x, p, y>>, <<y, p, z>> >>,
   << <<y, p, z>>, <<y, n, u>>, <<x, n, u>> >>}

(* compare_tag (Tags.tla) on the tags that occur.                          *)
TagsUsed ==
  {f[i] : f \in MCTriples \cup WideTriples, i \in Positions}
    \cup {t \in UNION {{q[l][i] : l \in 1..Len(q), i \in Positions} : q \in MCSpecs} :
            ~IsVar(t)}
MCOrder == [v, w \in TagsUsed |-> CompareTag(v, w)]
=============================================================================
