SPECIFICATION ReportSpec
CONSTANTS
  Reporting = {c1, c2}
  MaxReports = 2
PROPERTIES ClosedStaysClosed
