----------------------------- MODULE MCNetBoot ------------------------------
EXTENDS NetBoot, TLC

MCOwner == "a1" :> "s1" @@ "a2" :> "s2"

\* img: a file; lnk: a relative link to it; abs: an absolute link to lnk.
MCFileLen == <<1, 2>> :> 3
MCLinkTo  == <<3, 2>> :> [rel |-> TRUE, to |-> <<1, 2>>]
               @@ <<4>> :> [rel |-> FALSE, to |-> <<3, 2>>]
MCGoal    == [n \in DOMAIN MCFileLen \cup DOMAIN MCLinkTo |-> <<1, 2>>]
MCDirs    == {<<5>>}
MCOthers  == {<<6>>}
MCBootFiles == {<<4>>, <<5>>, <<6>>}
=============================================================================
