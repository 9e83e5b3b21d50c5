-------------------------- MODULE MCProcessCapture --------------------------
(***************************************************************************)
(* Programs that fill a pipe of either stream, end without a newline, mix  *)
(* the streams, or write what is not UTF-8.                                *)
(***************************************************************************)
EXTENDS ProcessCapture

Out(bytes) == [i \in DOMAIN bytes |-> <<"stdout", bytes[i]>>]
Err(bytes) == [i \in DOMAIN bytes |-> <<"stderr", bytes[i]>>]

Scripts ==
    {<<>>,
     Out(<<"x", "newline", "x">>) \o Err(<<"x", "newline">>),
     Err(<<"x", "x", "x", "newline">>) \o Out(<<"x">>),
     Err(<<" ", "newline">>) \o Out(<<"x", "newline">>) \o Err(<<"newline">>),
     Out(<<"x", "bad">>), Err(<<"x", "newline", "bad">>) \o Out(<<" ">>)}

MCJobs ==
    [kind : {"capture", "streaming", "captureStatus", "logs"}, script : Scripts, exit : {"0", "1"}]
    \cup [kind : {"exists", "foreground"}, script : {<<>>, Out(<<"x">>)}, exit : {"0", "1", "125"}]

=============================================================================
