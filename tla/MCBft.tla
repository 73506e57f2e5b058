------------------------------- MODULE MCBft -------------------------------
(***************************************************************************)
(* Instances of Bft for TLC: one or two clients, on hosts of their own,    *)
(* with files of their own or under one name.                              *)
(***************************************************************************)
EXTENDS BftRefinement

CONSTANTS c1, c2,     \* clients
          a, b, old,  \* chunks
          f1, f2,     \* file names
          h1, h2      \* hosts

OneFile  == c1 :> <<a, b>>

\* SYN and FIN only.
EmptyFile == c1 :> <<>>

TwoFiles == (c1 :> <<a, b>>) @@ (c2 :> <<b>>)

\* The second client uploads an empty file: SYN and FIN only.
OneEmptyFile == (c1 :> <<a, b>>) @@ (c2 :> <<>>)

OneName  == c1 :> f1
OwnNames == (c1 :> f1) @@ (c2 :> f2)
SameName == (c1 :> f1) @@ (c2 :> f1)

OwnHost     == c1 :> h1
OwnHosts    == (c1 :> h1) @@ (c2 :> h2)

\* What the server finds in its directory when it starts.
Leftover   == {<<old>>}
NoLeftover == {}

\* The default of option -R.
NeverGiveUp == -1

=============================================================================
