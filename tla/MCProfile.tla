----------------------------- MODULE MCProfile ------------------------------
EXTENDS Profile, TLC

CONSTANTS ann, bob  \* accounts

MCWallets == {ann :> x @@ bob :> 1 : x \in {6, 12}}

\* One nickname in two spellings, the second with a space at its end, which only
\* a profile that comes with MsgCreateAccount may have, another nickname, three
\* tabs, and none.
MCLower == "bob" :> "bob" @@ "Bob_" :> "bob_" @@ "eve" :> "eve" @@ "tabs" :> "tabs" @@ "" :> ""
MCTrimmed == "bob" :> "bob" @@ "Bob_" :> "bob" @@ "eve" :> "eve" @@ "tabs" :> "" @@ "" :> ""

\* An account that is active until 2, and has extra storage until then.
MCGift == [Blank EXCEPT !.activeUntil = 2, !.imUntil = 2, !.imExtra = 1]

MCNewProfiles ==
    {[Blank EXCEPT !.nickname = name] : name \in {"Bob_", "tabs"}}
      \cup {[MCGift EXCEPT !.nickname = "bob"]}
=============================================================================
