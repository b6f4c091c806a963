----------------------------- MODULE MCDelegates -----------------------------
(* Two accounts; sets of transactions for names, for votes, for the second     *)
(* signature and for what one of a group signs for the other.                  *)
EXTENDS Delegates, TLC

CONSTANTS a, b, n, m, N \* N is n in upper case

MCLower == n :> n @@ m :> m @@ N :> n
MCGroup == a :> {b} @@ b :> {}

Plain(i, k, x) == [id |-> i, kind |-> k, sender |-> x, requester |-> Nobody, signed |-> Nobody,
                   name |-> n, adds |-> {}, removes |-> {}]
Register(i, x, y) == [Plain(i, "delegate", x) EXCEPT !.name = y]
Vote(i, x, p, q) == [Plain(i, "vote", x) EXCEPT !.adds = p, !.removes = q]
Second(i, x) == Plain(i, "signature", x)
For(r, t) == [t EXCEPT !.requester = r]  \* r asks for it
Signed(t, x) == [t EXCEPT !.signed = x]

\* Two accounts compete for a name, or vote for each other, or one sets its second
\* signature while it has a registration in the pool, or while it asks for transactions of another.
Names == {Register(1, a, n), Register(2, b, n), Register(3, b, N), Vote(4, b, {a}, {})}
Votes == {Register(1, a, n), Register(2, b, m), Vote(3, b, {a}, {}),
          Vote(4, b, {b}, {}), Vote(5, b, {b}, {a})}
Signatures == {Second(1, a), Second(2, a), Register(3, a, n), Signed(Register(4, a, n), a)}
Requests == {Second(1, b), For(b, Register(2, a, n)), Signed(For(b, Vote(3, a, {a}, {})), b),
             Signed(Register(4, b, m), a)}
MCOffers == {Names, Votes, Signatures, Requests}

=============================================================================
