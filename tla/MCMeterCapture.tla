--------------------------- MODULE MCMeterCapture ---------------------------
EXTENDS MeterCapture

=============================================================================
