--------------------------- MODULE MCCacheObjects ---------------------------
(***************************************************************************)
(* A small instance of CacheObjects: one client and one object that it     *)
(* asks about; Junk stands for the bytes of every other object.            *)
(***************************************************************************)
EXTENDS CacheObjects

CONSTANTS c1, a
=============================================================================
