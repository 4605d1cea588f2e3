------------------------------ MODULE MCAsyncTask ------------------------------
(* AsyncTask for TLC.                                                      *)
EXTENDS AsyncTask
================================================================================
