------------------------------- MODULE MCBoot -------------------------------
EXTENDS Boot

MCBootDelays == {-1, 4}

MCKeys == {<<"a", "b">>, <<"b", "b">>, <<>>}

\* A recovery file behind an empty partition, of a size that fits, that is too
\* long; a boot file.
MCSticks == {<<[rec |-> 0, boot |-> FALSE], [rec |-> 7, boot |-> TRUE]>>,
             <<[rec |-> 19, boot |-> FALSE]>>, <<[rec |-> 0, boot |-> TRUE]>>}
=============================================================================
