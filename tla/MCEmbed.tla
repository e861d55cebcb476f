------------------------------ MODULE MCEmbed ------------------------------
EXTENDS EmbedBatch

\* Lengths of texts: 0 blank, 1 short, 9 and 99 long and uneven. A batch with one text more than
\* two attempts can take apart, two batches of different sizes, a batch in another order.
MCInputs == {<<9, 0, 9, 9>>, <<99, 0, 1, 9>>}

\* InOrder is the order of SetToSortSeq.
ASSUME \A S \in SUBSET (0..3) : InOrder(S, Rising(S)) = SetToSortSeq(S, LAMBDA x, y : x < y)
=============================================================================
