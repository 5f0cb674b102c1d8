------------------------------ MODULE Evolution ------------------------------
(***************************************************************************)
(* Label transfer, uli/drift/evolution.py: the classes of the tokens of an *)
(* old and of a new template are aligned (Needleman-Wunsch), and the names *)
(* of the fields at the old positions go to the new ones.  A template is   *)
(* the sequence of the classes of its tokens.                               *)
(***************************************************************************)
EXTENDS Integers, Sequences, FiniteSetsExt, SequencesExt

Compat == {<<"NUM", "PORT">>, <<"PORT", "NUM">>, <<"WORD", "HOST">>, <<"HOST", "WORD">>,
           <<"NUM", "HEX">>, <<"HEX", "NUM">>}

\* _cost, a gain really, and the gain of a gap
Cost(a, b) == CASE a = b -> 2 [] <<a, b>> \in Compat -> 1 [] OTHER -> -2
Gap == -1

\* A pair, a gap in b or one in a
CellNoLeft(diag, up, left) == Max({diag, up})   \* mutant: no gap in the old template
Cell(diag, up, left) == Max({diag, up, left})

\* The best gain of the first i classes of a and the first j of b.
Cells(a, b) == (0..Len(a)) \X (0..Len(b))
Table(a, b) ==
  LET dp[p \in Cells(a, b)] ==
        LET i == p[1]  j == p[2]
        IN IF 0 \in {i, j} THEN (i + j) * Gap
           ELSE Cell(dp[<<i-1, j-1>>] + Cost(a[i], b[j]), dp[<<i-1, j>>] + Gap, dp[<<i, j-1>>] + Gap)
  IN dp

\* The pairs of positions of an alignment, a gap being 0, from the end of the
\* table back to its corner: a pair is preferred to a gap in b, that to one in a.
align(a, b) ==
  LET dp == Table(a, b)
      back[p \in Cells(a, b)] ==
        LET i == p[1]  j == p[2]
        IN IF p = <<0, 0>> THEN <<>>
           ELSE IF i > 0 /\ j > 0 /\ dp[p] = dp[<<i-1, j-1>>] + Cost(a[i], b[j])
             THEN Append(back[<<i-1, j-1>>], p)
           ELSE IF i > 0 /\ dp[p] = dp[<<i-1, j>>] + Gap
             THEN Append(back[<<i-1, j>>], <<i, 0>>)
           ELSE Append(back[<<i, j-1>>], <<0, j>>)
  IN back[<<Len(a), Len(b)>>]

\* labels: position in the old template |-> name.  Names go along with pairs of
\* equal or compatible classes.
transfer_labels(a, labels, b) ==
  LET pairs == {p \in Range(align(a, b)) : /\ p[1] \in DOMAIN labels /\ p[2] # 0
                                           /\ Cost(a[p[1]], b[p[2]]) > 0}
  IN [j \in {p[2] : p \in pairs} |-> labels[(CHOOSE p \in pairs : p[2] = j)[1]]]
-----------------------------------------------------------------------------
CONSTANTS Classes, MaxLen   \* classes of tokens; bound: tokens of a template
VARIABLES oldTpl, newTpl    \* the reference template of a parser, and a new one

InitTemplates == oldTpl = <<>> /\ newTpl = <<>>
Extend ==
  \E c \in Classes :
    \/ Len(oldTpl) < MaxLen /\ oldTpl' = Append(oldTpl, c) /\ UNCHANGED newTpl
    \/ Len(newTpl) < MaxLen /\ newTpl' = Append(newTpl, c) /\ UNCHANGED oldTpl
TemplateSpec == InitTemplates /\ [][Extend]_<<oldTpl, newTpl>>
-----------------------------------------------------------------------------
(***************************************************************************)
(* Properties                                                              *)
(***************************************************************************)
\* The reference: any pairs of positions that keep the order of both templates,
\* and their gain.
InOrder(P) == \A p, q \in P : p[1] < q[1] <=> p[2] < q[2]
Gain(a, b, P) ==
  LET of(c) == Cardinality({p \in P : Cost(a[p[1]], b[p[2]]) = c})
  IN 2 * of(2) + of(1) - 2 * of(-2) + Gap * (Len(a) + Len(b) - 2 * Cardinality(P))

\* An alignment has every position of both templates once and in order, and no
\* other has a greater gain; and a name reaches at most one position, of a class
\* that is compatible, all of them if nothing has changed.
AlignOptimal ==
  LET al == align(oldTpl, newTpl)
      labels  == [i \in DOMAIN oldTpl |-> i]
      carried == transfer_labels(oldTpl, labels, newTpl)
  IN /\ {p[1] : p \in Range(al)} \ {0} = DOMAIN oldTpl /\ {p[2] : p \in Range(al)} \ {0} = DOMAIN newTpl
     /\ \A k, l \in DOMAIN al : k < l => \A c \in {1, 2} : 0 \in {al[k][c], al[l][c]} \/ al[k][c] < al[l][c]
     /\ <<0, 0>> \notin Range(al)
     /\ \A P \in SUBSET ((DOMAIN oldTpl) \X (DOMAIN newTpl)) :
          InOrder(P) => Gain(oldTpl, newTpl, P) <= Gain(oldTpl, newTpl, {p \in Range(al) : 0 \notin {p[1], p[2]}})
     /\ IsInjective(carried) /\ \A j \in DOMAIN carried : Cost(oldTpl[carried[j]], newTpl[j]) > 0
     /\ oldTpl = newTpl => carried = labels
=============================================================================
