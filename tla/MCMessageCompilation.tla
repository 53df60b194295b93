------------------------- MODULE MCMessageCompilation -------------------------
(***************************************************************************)
(* Requests without tables, with one and with two.  The tables overlap,    *)
(* hold the fee payer and a program, and name one address twice; the last  *)
(* is too long.  Five addresses and four keys: some messages do not fit.   *)
(* The Chancery program is "a", so that it is invoked itself or called by  *)
(* another program, and its event authority is "b": both may be in tables. *)
(***************************************************************************)
EXTENDS TransactionEvents

MCTableChoices ==
    {<<>>, <<<<"a", "program", "a">>>>, <<<<"b", "payer">>, <<"a", "program", "b">>>>,
     <<<<"b", "b", "b", "b", "b">>>>}

Call(program, accounts, data) ==
    [program |-> program, accounts |-> accounts, data |-> data]

(* Nothing; a call and an event; an event of a later schema and one of this; an
   unreadable one; event data that is not the program's own, for three reasons. *)
MCInnerSequences ==
    {<<>>,
     <<Call("a", <<"b", "payer">>, "call"), Call("a", <<"b">>, "event")>>,
     <<Call("a", <<"b">>, "laterEvent"), Call("swap", <<"b">>, "event"),
       Call("a", <<"b">>, "event")>>,
     <<Call("a", <<"b">>, "trailingBytes")>>,
     <<Call("a", <<"payer", "b">>, "event"), Call("a", <<>>, "event")>>}
=============================================================================
