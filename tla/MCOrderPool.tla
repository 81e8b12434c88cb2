------------------------------ MODULE MCOrderPool ------------------------------
EXTENDS OrderPool

CONSTANTS o1, o2, m1, m2, p, c, d, q

\* Both orders in one district; one has an appointment.
MCAddress == [o \in Orders |-> <<p, c, d>>]
MCSkilled == {<<m2, o2>>} \cap (Masters \X Orders)
MCAppointment == [o \in Orders |-> IF o = o2 THEN <<1, 8, 10>> ELSE NoAppointment]
MCOpen == {<<p, c, NoCode>>}

\* A whole city, a district, and an area without a province, which is not open.
MCAreas == { {}, {<<p, c, NoCode>>}, {<<p, c, d>>}, {<<q, c, d>>, Pool} }
\* One order is being served by the master who looks at the pool.
MCHolder == [o \in Orders |-> IF o = o2 THEN m1 ELSE NoMaster]
MCInitialAreas == [m \in Masters |-> IF m = m2 THEN {} ELSE {<<p, c, NoCode>>}]
MCStatus == [m \in Masters |-> IF m = m2 THEN "pending" ELSE "active"]
===============================================================================
