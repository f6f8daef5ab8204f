--------------------------- MODULE MCWorkflowRunner ---------------------------
(* A small instance of WorkflowRunner for TLC.                              *)
EXTENDS WorkflowRunner

\* Two stocks.
TwoBots == <<"b1", "b2">>

\* The post-market stock workflow (postmarket/workflow.go:17-53), shortened to
\* the steps with an effect of their own and the one after the create.
PostMarketA == <<"check_trading_day", "get_report_bot_codes">>
PostMarketStock == <<"list_today_reports", "get_bot_log_by_type",
                     "get_stock_daily_reports", "create_report", "write_execution_log">>
OptionalTools == {"get_bot_log_by_type"}
=============================================================================
