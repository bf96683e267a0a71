----------------------------- MODULE MCJournal ------------------------------
(* Journal on tracks of up to three pages, written twice.                  *)
EXTENDS Journal
=============================================================================
