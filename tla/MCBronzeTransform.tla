-------------------------- MODULE MCBronzeTransform ---------------------------
EXTENDS BronzeTransform
=============================================================================
