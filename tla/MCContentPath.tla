---------------------------- MODULE MCContentPath ----------------------------
(* A video and an image, in a store whose next release may hold one of them. *)
EXTENDS ContentPath

MCSizes == <<2, 1>>
MCKind == <<"video", "image">>
MCRanges == {NoRange, <<Unset, 1>>, <<2, Unset>>}

Chunk(name, size) == [name |-> name, size |-> size, sound |-> TRUE]
Cut(name) == [name |-> name, size |-> 1, sound |-> FALSE]
MCRecordings ==
  { <<Chunk("fmt", 16), Chunk("data", 2)>>, <<Chunk("fmt", 16), Chunk("data", 3)>>,
    <<Chunk("data", 1)>>, <<Chunk("fmt", 16)>>, <<Chunk("fmt", 16), Cut("data")>>,
    <<Chunk("fmt", 16), Chunk("data", 3), Chunk("data", 1)>> }
==============================================================================
