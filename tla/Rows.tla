---------------------------------- MODULE Rows ----------------------------------
\* A column that is null, a row that is not there, a handler that does not run.
CONSTANT NULL
=============================================================================
