--------------------------- MODULE PublishedMarket ---------------------------
(***************************************************************************)
(* What the publication promises to every reader of v_current_publication: *)
(* the market shows nothing at first, and from then on always the source   *)
(* as it was at one moment, replaced in one step by the source of another  *)
(* moment (migration 0007: the UI always reads the last 'published'        *)
(* generation, and the swap is atomic).                                    *)
(***************************************************************************)
CONSTANTS
    Snapshots,  \* what the source may be
    Nothing     \* the market before the first publication

VARIABLES
    source,     \* the offers there are now
    past,       \* every value the source has had, the present one included
    market      \* what a reader sees

Init ==
    /\ source \in Snapshots
    /\ past = {source}
    /\ market = Nothing

Change ==
    /\ source' \in Snapshots
    /\ past' = past \cup {source'}
    /\ UNCHANGED market

Publish ==
    /\ market' \in past
    /\ UNCHANGED <<source, past>>

Next == Change \/ Publish

Spec == Init /\ [][Next]_<<source, past, market>>
=============================================================================
