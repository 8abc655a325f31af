-------------------------- MODULE MCProxyChannel --------------------------
(* ProxyChannel for TLC. *)
EXTENDS ProxyChannel

(* An answer that fits in the ring, and one that does not. *)
SomeResults == {<<"x">>, <<"x", "y", "z">>}

(* The command with a mistake in it, with keys after it, cut off; others. *)
SomeKeys == {<<"k", "^H", "triage", Newline>>, <<"k", "k", "^U", "triage", Newline>>,
             <<"triage", Newline, "k">>, <<"triage", Eof>>,
             <<"^P", Newline, "k", Newline, "k", Eof, Eof>>}
=============================================================================
