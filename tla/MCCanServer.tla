-------------------------------- MODULE MCCanServer --------------------------------
EXTENDS CanServer
====================================================================================
