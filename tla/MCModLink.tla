------------------------------- MODULE MCModLink -------------------------------
(***************************************************************************)
(* Small instances of ModLink: the scopes the .cfg files choose from.      *)
(***************************************************************************)
EXTENDS ModLink

None == [rows |-> 0, turns |-> 1, restarts |-> 0, reloads |-> 0, renames |-> 0, lost |-> 0,
         overlap |-> FALSE, lag |-> FALSE]

\* Both sides begin again; or a batch is resent while its first copy is applied; or
\* the session is renamed and a request lost; or it is renamed and the
\* transcript lags.
Mixed == {[None EXCEPT !.rows = 2, !.restarts = 1, !.reloads = 1],
          [None EXCEPT !.rows = 2, !.lost = 1, !.overlap = TRUE],
          [None EXCEPT !.rows = 1, !.renames = 1, !.lost = 1],
          [None EXCEPT !.rows = 1, !.renames = 1, !.lag = TRUE]}

\* The mod is reloaded while session-events rebuilds the log.
StaleHistory == {[None EXCEPT !.rows = 1, !.reloads = 1, !.overlap = TRUE]}
=============================================================================
