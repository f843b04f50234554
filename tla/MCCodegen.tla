------------------------------ MODULE MCCodegen ------------------------------
EXTENDS CompiledPrograms, Compilation

Codes    == LET table == CodeTable IN table
Verified == LET table == ReportTable IN table
Meanings == LET table == MeaningTable IN table
=============================================================================
