-------------------------- MODULE MCRawArticleQueue --------------------------
(* Instances of RawArticleQueue for TLC. *)
EXTENDS RawArticleQueue, TLC

CONSTANTS t1, t2

\* Two raw articles share no title; the only one of a run may be renamed.
OneTitle == <<{t1}>>
TwoTitles == <<{t1, t2}>>
TwoRaws == <<{t1}, {t2}>>

Symmetry == Permutations({t1, t2})

=============================================================================
