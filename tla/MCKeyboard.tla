------------------------------ MODULE MCKeyboard ------------------------------
EXTENDS KeyboardCommands
=============================================================================
