------------------------------ MODULE MCAnchors ------------------------------
EXTENDS Anchors
=============================================================================
