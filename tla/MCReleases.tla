----------------------------- MODULE MCReleases -----------------------------
EXTENDS Releases

\* Release 1 is installed first; 2 adds the extension; 3 has a bad bundle.
MCVersions == 1 .. 3
MCBad == {3}
MCWithExtension == {2}
=============================================================================
