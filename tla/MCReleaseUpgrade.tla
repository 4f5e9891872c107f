-------------------------- MODULE MCReleaseUpgrade --------------------------
\* Instances of ReleaseUpgrade for TLC: the release an installation begins
\* with and one more, from a fresh installation and from one in use.
EXTENDS ReleaseUpgrade
=============================================================================
