-------------------------- MODULE MCReleaseVerdicts --------------------------
EXTENDS ReleaseVerdicts, TLC

=============================================================================
