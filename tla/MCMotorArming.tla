------------------------------ MODULE MCMotorArming -------------------------------
EXTENDS MotorArming
=====================================================================================
