---------------------------- MODULE TickArchive -----------------------------
(***************************************************************************)
(* What a tick file promises to everything that reads it: at any moment it *)
(* holds exactly the trades the user asked for, from the first one up to   *)
(* the end of some second, and it only ever grows at its end.  Retries,    *)
(* restarts, crashes, cancellation and the commit cadence do not show.     *)
(***************************************************************************)
EXTENDS MarketData

VARIABLE archive    \* the trades of the committed file, in file order

ArchiveInit == archive = <<>>

\* One commit: the file grows by whole seconds.
Extend ==
    /\ archive' \in Seq(Trades)
    /\ archive' # archive
    /\ IsPrefix(archive, archive')
    /\ Exact(archive')

ArchiveSpec == ArchiveInit /\ [][Extend]_archive
=============================================================================
