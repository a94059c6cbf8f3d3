---------------------------- MODULE MCRetrieval ----------------------------
(* Values for TLC: a page that repeats two chunks, one that repeats one, and *)
(* two chunks that overlap.                                                *)
EXTENDS Retrieval

MCTwins == {{Page(1), Chunk(1)}, {Page(2), Chunk(1)}, {Page(1), Chunk(2)}, {Chunk(2), Chunk(3)}}
=============================================================================
