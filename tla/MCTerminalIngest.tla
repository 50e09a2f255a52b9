--------------------------- MODULE MCTerminalIngest ---------------------------
(* Three requests of one run: an upload of two files, a JSON request with the *)
(* same external id, and one that is a JSON request whose two text parts end  *)
(* up with one id, an upload the inspection refuses or one the parser refuses.*)
EXTENDS TerminalIngest, TLC

CONSTANTS r1, r2, r3

Upload(ext, text, files, bytes) ==
    [multipart |-> TRUE, ext |-> ext, text |-> text, parts |-> <<>>, files |-> files,
     bytes |-> bytes]

Json(ext, parts) ==
    [multipart |-> FALSE, ext |-> ext, text |-> TRUE, parts |-> parts, files |-> <<>>,
     bytes |-> 1]

File(kind, size) == [kind |-> kind, size |-> size]

MCCarries ==
    r1 :> {Upload("e", TRUE, <<File("image", 1), File("image", 2)>>, 4)}
    @@ r2 :> {Json("e", <<>>)}
    @@ r3 :> {Json("e", <<TextPart(<<"text", 2>>), TextPart(<<>>)>>),
              Upload(NoId, FALSE, <<File("image", 3)>>, 4),
              Upload(NoId, TRUE, <<>>, 5)}

=============================================================================
