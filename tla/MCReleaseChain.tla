---- MODULE MCReleaseChain ----
\* The release with the number of detours the configuration gives.
EXTENDS ReleaseChain
====
