------------------------------ MODULE PythonNone ------------------------------
(* The value None, shared by the modules whose records may lack a field.     *)
CONSTANT Null
=============================================================================
