----------------------------- MODULE MCBoaServer -----------------------------
(* Instances of BoaServer for TLC: which clients come, and what they send. *)
EXTENDS BoaServer, TLC

CONSTANTS c1, c2

MCClients == {c1, c2}

\* One connection at a time, and a descriptor table that a request with a file
\* fills; or two, and room for all that a request may take.
MCLimits == {[connections |-> 2, files |-> 3], [connections |-> 3, files |-> 6]}

\* One client whose connection may be kept for a second request, with every
\* kind of answer, simple requests and headers that are refused.
OneClient ==
    {c1 :> <<"mapped", "end", "small", "end">>,
     c1 :> <<"missing", "end">>, c1 :> <<"cgi", "end">>,
     c1 :> <<"post", "end", "body">>, c1 :> <<"post", "blank">>,
     c1 :> <<"old_file">>, c1 :> <<"old_cgi">>,
     c1 :> <<"old_post", "end", "body">>, c1 :> <<"old_post", "blank">>,
     c1 :> <<"small", "bad", "small", "end">>}

\* A client with a file beside one that says nothing.
WithSilent == {(c1 :> <<"large", "end">>) @@ (c2 :> << >>)}

MCScripts == OneClient \cup WithSilent

\* One client and one small file.
SmallScripts == {c1 :> <<"small", "end">>}
=============================================================================
