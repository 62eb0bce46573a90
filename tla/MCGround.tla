-------------------------------- MODULE MCGround --------------------------------
EXTENDS CommandHandler

CONSTANTS h1, h2
===============================================================================
