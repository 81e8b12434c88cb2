------------------------------ MODULE MCTickets ------------------------------
EXTENDS Tickets

CONSTANT lead

MCLeads == {lead, NoOne}
=============================================================================
