------------------------------ MODULE MCQueries ------------------------------
(* A small instance of Queries: three nodes and the requests it tries.     *)
EXTENDS ClauseTrees, TLC

CONSTANTS me, other

OwnerMC == [n \in 1 .. 3 |-> IF n = 2 THEN me ELSE other]
SgiMC == [n \in 1 .. 3 |-> IF n = 1 THEN "B" ELSE "A"]
PermReadMC == [n \in 1 .. 3 |-> n # 1]
ShrMC == {1, 3}
RankMC == <<2, 3, 1>>

(* Values: empty, short, long, and with blanks around them.                *)
ValsMC == {"", "0", "1970", "ab", " ab", "abc", " abc"}
TrimSpaceMC == [v \in ValsMC |-> IF v = " ab" THEN "ab" ELSE IF v = " abc" THEN "abc" ELSE v]
LongValsMC == {"abc", "1970"}
TextMC == STRING

And(s) == Nested(Leaf("", "", ""), TRUE, s, <<>>)
Or(s) == Nested(Leaf("", "", ""), FALSE, <<>>, s)
Both(s, r) == Nested(Leaf("", "", ""), TRUE, s, r)

(* Leaves with every kind of value and operation, fields in both cases.    *)
ValueLeaves == {Single(Leaf(f, o, v)) : f \in {"s1", "m"}, o \in {"has", "EQ", "like"},
                                        v \in {"", "ab", " ab", "abc", " abc"}}
FieldLeaves == {Single(Leaf(f, "eq", "abc")) : f \in {"s1", "p", "P", "g", "G", "zz"}}
GeoLeaves == {Single([Leaf(f, "", "") EXCEPT !.geo = g]) : g \in {"good", "bad"}, f \in {"", "s1"}}

Trees ==
  {And(<<l, k>>) : l \in ValueLeaves, k \in ValueLeaves}
  \union FieldLeaves \union GeoLeaves
  \union {Or(<<Single(Leaf("s1", "eq", "ab")), And(<<l, g>>)>>) : l \in FieldLeaves, g \in GeoLeaves}
  \union {Both(<<l>>, <<k>>) : l \in FieldLeaves, k \in FieldLeaves}
  \union {Both(<<>>, <<l>>) : l \in FieldLeaves}

(* Trees that only the comparison with the recursive functions tries:      *)
(* lists within lists, hidden ones among them.                             *)
DeepTrees ==
  {Both(<<Or(<<l, Both(<<>>, <<g>>)>>), g>>, <<And(<<l>>), k>>) :
     l \in FieldLeaves, k \in FieldLeaves, g \in GeoLeaves}
  \union {Or(<<Both(<<And(<<l>>)>>, <<k>>), Or(<<k, g>>)>>) :
     l \in FieldLeaves, k \in FieldLeaves, g \in GeoLeaves}

ASSUME TreesAgree == \A c \in Trees \union DeepTrees : SameAsNested(c)

Filtering == {[NoRequest EXCEPT !.filters = Flat(c)] : c \in Trees}

Rooted == {[NoRequest EXCEPT !.sys = s, !.rootQuery = c, !.filters = Flat(Single(Leaf("s1", "eq", "abc"))),
                             !.orderBy = o] :
             s \in BOOLEAN, o \in {"none", "P", "m"},
             c \in {Absent, <<Leaf("s1", "has", "abc")>>, <<Leaf("P", "eq", "abc")>>}}

(* Every way to give a root, valid or not.                                 *)
Roots == {[NoRequest EXCEPT !.kind = k, !.sys = s, !.similar = v, !.topK = 2, !.geo = g,
                            !.rootIDs = i, !.depth = 21, !.first = 2] :
            k \in {"query", "own", "shared"}, s \in BOOLEAN, v \in {"none", "good", "bad"},
            g \in {"none", "good", "bad"}, i \in BOOLEAN}

Paging == {[NoRequest EXCEPT !.kind = k, !.sys = s, !.similar = v, !.topK = 2, !.first = f,
                             !.offset = o, !.after = a, !.orderBy = b[1], !.orderDesc = b[2]] :
             k \in {"query", "own", "shared"}, s \in BOOLEAN, v \in {"none", "good"},
             f \in {0, 1, 2}, o \in {0, 1}, a \in {0, 1},
             b \in {<<"none", FALSE>>, <<"m", FALSE>>, <<"m", TRUE>>}}

Greedy == {[NoRequest EXCEPT !.similar = "good", !.topK = t] : t \in {0, 1001}}

RequestsMC == Filtering \union Rooted \union Roots \union Paging \union Greedy
=============================================================================
