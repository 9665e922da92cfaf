--------------------------- MODULE MCPublisherUpdate ---------------------------
EXTENDS PublisherUpdate
\* Two updates, to different commits.
MCCandidate == "s1" :> "v1" @@ "s2" :> "v2"
================================================================================
