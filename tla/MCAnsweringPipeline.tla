------------------------ MODULE MCAnsweringPipeline ------------------------
(* A small instance of AnsweringPipeline for TLC.                           *)
EXTENDS AnsweringPipeline, TLC

CONSTANTS x, y, z
=============================================================================
