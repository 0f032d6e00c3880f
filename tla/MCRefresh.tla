------------------------------ MODULE MCRefresh ------------------------------
(* Refresh on the pages around the weather and Spotify, with these feeds.    *)
EXTENDS Refresh

MCPages == {"weather", "stensjon", "spotify"}
MCFeeds == {"weather", "spotify"}
MCVersions == {"v1", "v2"}
MCKind == [v \in MCVersions |-> IF v = "v1" THEN "Spotify" ELSE "Other"]

\* No page shows what it does not have polled, whatever application is in front.
ASSUME TilesAreFed ==
    \A page \in PageIds : \A app \in AppKinds :
        FeedsShown(page, app) \subseteq required_integrations(page)

=============================================================================
