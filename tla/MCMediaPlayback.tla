-------------------------- MODULE MCMediaPlayback --------------------------
EXTENDS MediaPlayback

=============================================================================
