--------------------------- MODULE MCLocalStack ---------------------------
(* Values for LocalStack: what users write as messages. *)
EXTENDS LocalStack

Plain == [kind |-> "plain", ids |-> << >>]
\* A squash! commit that carries a trailer which is no identifier.  Amendments
\* turn it into a plain one with that trailer, and a plain one into a squash! one.
WrongSquash == [kind |-> "squash", ids |-> <<BadId>>]

PlainOrSquash == {Plain, WrongSquash}
OnlyPlain == {Plain}
=============================================================================
