------------------------------ MODULE MCOccupancy ------------------------------
EXTENDS Occupancy

================================================================================
