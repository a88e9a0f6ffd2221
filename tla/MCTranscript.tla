---------------------------- MODULE MCTranscript ----------------------------
(***************************************************************************)
(* An instance of Transcript for TLC.  The first queries end inside an     *)
(* element, the second fill theirs exactly, and both cross from one        *)
(* element to the next inside a query.                                     *)
(***************************************************************************)
EXTENDS Transcript

MCQueries == { <<2, 2>>, <<3, 2>> }
=============================================================================
