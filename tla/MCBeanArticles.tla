--------------------------- MODULE MCBeanArticles -----------------------------
(* BeanArticles for TLC: every list over the articles with at most         *)
(* MaxLength entries, those with an article twice included.                *)
EXTENDS BeanArticles, SequencesExt

CONSTANT MaxLength

MCLists == BoundedSeq(Article, MaxLength)
==============================================================================
