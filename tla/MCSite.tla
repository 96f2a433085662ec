-------------------------------- MODULE MCSite --------------------------------
(***************************************************************************)
(* Instance of Site for TLC.                                               *)
(***************************************************************************)
EXTENDS Site

\* A table is opened by a link to its second page.
MCLinks == [page : {1}, filter : {NoFilter}, sort : {"none"}]
=============================================================================
